---- MODULE Spec2Model ----
(***************************************************************************)
(* shiki-highlight-api: a model of the render pipeline of src/src/index.ts *)
(* (codeToHighlightHtml, loadCustomLanguage, the shared highlighter of     *)
(* getHighlighter, generateHtml / generateCss / generateScript), of        *)
(* src/src/transformer-builder.ts and of src/src/line-parser.ts.           *)
(*                                                                         *)
(* Strings are sequences of one-character strings, so that split, trim,    *)
(* parseInt and the entity escaping are computed the way the code computes *)
(* them.  Sets (the Set<number> of the code) are TLA+ sets; a Map is a     *)
(* function on its key set.                                                *)
(***************************************************************************)
EXTENDS Integers, Sequences, FiniteSets, TLC

(***************************************************************************)
(* Bounds of the model.                                                    *)
(***************************************************************************)
\* number of calls (codeToHighlightHtml / loadCustomLanguage) of one run
NumCalls == 3
\* longest source text, in characters
MaxCodeLen == 2
\* largest start value of lineNumbers: { start }
MaxStart == 2
\* largest line number an option refers to
MaxLineNo == 3
\* engine calls (createHighlighter, loadLanguage) that may reject in one run
MaxFailures == 1
\* the longest token stream (tokens and line breaks) of the generator runs
MaxStreamLen == 4
\* the longest selector string of the parser runs
MaxSelectorLen == 5
\* the line numbers of the element the hooks run on, and the count of hook
\* applications that is remembered
MaxHookLine == 2
MaxApplied == 2
\* the most elements of a tree handed to extractMetadata, and the largest
\* line number they carry
MaxTreeLen == 2
MaxTreeLine == 2
\* the longest source text of the escaping runs
MaxEscapeLen == 4

(***************************************************************************)
(* Strings.                                                                *)
(***************************************************************************)
NL == "\n"
\* the characters String.prototype.trim and parseInt strip: the WhiteSpace
\* and LineTerminator characters of ECMAScript.  A character that has no
\* escape in a TLA+ string is written as its code point.
Whitespace ==
  {" ", "\t", NL, "\r", "\f", "U+000B", "U+00A0", "U+FEFF", "U+2028", "U+2029",
   "U+1680", "U+2000", "U+2001", "U+2002", "U+2003", "U+2004", "U+2005",
   "U+2006", "U+2007", "U+2008", "U+2009", "U+200A", "U+202F", "U+205F",
   "U+3000"}
Digits == {"0", "1", "2", "3", "4", "5", "6", "7", "8", "9"}

DigitVal(c) ==
  CASE c = "0" -> 0 [] c = "1" -> 1 [] c = "2" -> 2 [] c = "3" -> 3
    [] c = "4" -> 4 [] c = "5" -> 5 [] c = "6" -> 6 [] c = "7" -> 7
    [] c = "8" -> 8 [] c = "9" -> 9

\* Array.prototype.includes on a sequence
Includes(seq, x) == \E i \in 1..Len(seq) : seq[i] = x

\* String.prototype.includes for a one-character needle
StrIncludes(s, ch) == \E i \in 1..Len(s) : s[i] = ch

RECURSIVE SplitOn(_, _)
\* String.prototype.split(ch): the pieces between the occurrences of ch;
\* a string without ch (the empty string too) gives one piece
SplitOn(s, ch) ==
  IF \A i \in 1..Len(s) : s[i] # ch
    THEN <<s>>
    ELSE LET k == CHOOSE i \in 1..Len(s) :
                     s[i] = ch /\ \A j \in 1..(i - 1) : s[j] # ch
         IN  <<SubSeq(s, 1, k - 1)>> \o SplitOn(SubSeq(s, k + 1, Len(s)), ch)

RECURSIVE TrimStart(_)
TrimStart(s) ==
  IF s # <<>> /\ Head(s) \in Whitespace THEN TrimStart(Tail(s)) ELSE s

RECURSIVE TrimEnd(_)
TrimEnd(s) ==
  IF s # <<>> /\ s[Len(s)] \in Whitespace
    THEN TrimEnd(SubSeq(s, 1, Len(s) - 1))
    ELSE s

\* String.prototype.trim
Trim(s) == TrimEnd(TrimStart(s))

RECURSIVE ReplaceAll(_, _, _)
\* String.prototype.replace(/ch/g, rep)
ReplaceAll(s, ch, rep) ==
  IF s = <<>> THEN <<>>
  ELSE (IF Head(s) = ch THEN rep ELSE <<Head(s)>>) \o ReplaceAll(Tail(s), ch, rep)

RECURSIVE DigitPrefix(_)
\* the longest prefix of s made of decimal digits
DigitPrefix(s) ==
  IF s # <<>> /\ Head(s) \in Digits
    THEN <<Head(s)>> \o DigitPrefix(Tail(s))
    ELSE <<>>

RECURSIVE DecimalValue(_)
DecimalValue(ds) ==
  IF ds = <<>> THEN 0
  ELSE 10 * DecimalValue(SubSeq(ds, 1, Len(ds) - 1)) + DigitVal(ds[Len(ds)])

NaN == [nan |-> TRUE, val |-> 0]
Num(n) == [nan |-> FALSE, val |-> n]

\* parseInt(s, 10): leading whitespace is skipped, one sign is read, then
\* the longest run of digits; what follows the digits is ignored, and no
\* digit at all gives NaN
ParseInt(s) ==
  LET t      == TrimStart(s)
      signed == t # <<>> /\ Head(t) \in {"+", "-"}
      body   == IF signed THEN Tail(t) ELSE t
      ds     == DigitPrefix(body)
  IN  IF ds = <<>> THEN NaN
      ELSE IF signed /\ Head(t) = "-" THEN Num(0 - DecimalValue(ds))
      ELSE Num(DecimalValue(ds))

(***************************************************************************)
(* src/src/line-parser.ts                                                  *)
(***************************************************************************)
\* mutant: the end of a range is left out
SegmentLines_ExclusiveEnd(segment) ==
  LET trimmedSegment == Trim(segment)
  IN  IF trimmedSegment = <<>> THEN {}
      ELSE IF StrIncludes(trimmedSegment, "-")
        THEN LET parts == SplitOn(trimmedSegment, "-")
             IN  IF Len(parts) # 2 THEN {}
                 ELSE LET start == ParseInt(Trim(parts[1]))
                          end   == ParseInt(Trim(parts[2]))
                      IN  IF start.nan \/ end.nan THEN {}
                          ELSE IF start.val <= 0 \/ end.val <= 0 THEN {}
                          ELSE IF start.val > end.val THEN {}
                          ELSE start.val .. (end.val - 1)
        ELSE LET num == ParseInt(trimmedSegment)
             IN  IF ~num.nan /\ num.val > 0 THEN {num.val} ELSE {}

\* the line numbers one comma-separated segment adds to the result
SegmentLines(segment) ==
  LET trimmedSegment == Trim(segment)
  IN  IF trimmedSegment = <<>> THEN {}
      ELSE IF StrIncludes(trimmedSegment, "-")
        THEN LET parts == SplitOn(trimmedSegment, "-")
             IN  IF Len(parts) # 2 THEN {}
                 ELSE LET start == ParseInt(Trim(parts[1]))
                          end   == ParseInt(Trim(parts[2]))
                      IN  IF start.nan \/ end.nan THEN {}
                          ELSE IF start.val <= 0 \/ end.val <= 0 THEN {}
                          ELSE IF start.val > end.val THEN {}
                          ELSE start.val .. end.val
        ELSE LET num == ParseInt(trimmedSegment)
             IN  IF ~num.nan /\ num.val > 0 THEN {num.val} ELSE {}

parseLineNumbers(input) ==
  LET trimmed == Trim(input)
  IN  IF trimmed = <<>> THEN {}
      ELSE LET segments == SplitOn(trimmed, ",")
           IN  UNION {SegmentLines(segments[i]) : i \in 1..Len(segments)}

(***************************************************************************)
(* Options of a call (HighlightOptions, src/src/index.ts:64-85).  Every    *)
(* optional field carries its own "absent" form, so that the truthiness    *)
(* tests of buildTransformers are computed as JavaScript computes them.    *)
(*   lineNumbers    [kind: "absent" | "boolean" | "object", on, hasStart,  *)
(*                   start]                                                *)
(*   highlightLines [kind: "absent" | "array" | "string", array, str]      *)
(*   diffLines      [present, added, removed]   (an absent added/removed   *)
(*                   array reads as [] in createDiffLinesTransformer)      *)
(*   focusLines     [present, array]                                       *)
(*   transformers   sequence of names of user-supplied transformers        *)
(***************************************************************************)
LnAbsent    == [kind |-> "absent", on |-> FALSE, hasStart |-> FALSE, start |-> 0]
LnBool(b)   == [kind |-> "boolean", on |-> b, hasStart |-> FALSE, start |-> 0]
LnEmptyObj  == [kind |-> "object", on |-> FALSE, hasStart |-> FALSE, start |-> 0]
LnStart(s)  == [kind |-> "object", on |-> FALSE, hasStart |-> TRUE, start |-> s]

HlAbsent    == [kind |-> "absent", array |-> <<>>, str |-> <<>>]
HlArray(a)  == [kind |-> "array", array |-> a, str |-> <<>>]
HlString(s) == [kind |-> "string", array |-> <<>>, str |-> s]

DlAbsent    == [present |-> FALSE, added |-> <<>>, removed |-> <<>>]
DlObj(a, r) == [present |-> TRUE, added |-> a, removed |-> r]

FlAbsent    == [present |-> FALSE, array |-> <<>>]
FlArray(a)  == [present |-> TRUE, array |-> a]

\* new Set(array)
SetOf(array) == {array[i] : i \in 1..Len(array)}

\* JavaScript truthiness of the option values
TruthyLineNumbers(ln)    == (ln.kind = "boolean" /\ ln.on) \/ ln.kind = "object"
TruthyHighlightLines(hl) == hl.kind = "array" \/ (hl.kind = "string" /\ hl.str # <<>>)

(***************************************************************************)
(* src/src/transformer-builder.ts                                          *)
(*                                                                         *)
(* A transformer is a record [name, start, lines, added, removed]; the     *)
(* fields a kind does not use are 0 and {}.  A line element of the tree is *)
(* [class, dataLine, dataLineNumber, style] with class = [isArray, list]:   *)
(* the engine creates it with the string "line" as its class property, and *)
(* the hooks below replace that by an array.  The list holds the class     *)
(* names; a class in string form without any name stands for a missing     *)
(* class property.                                                         *)
(***************************************************************************)
Transformer(name, start, lines, added, removed) ==
  [name |-> name, start |-> start, lines |-> lines,
   added |-> added, removed |-> removed]

\* a property of an element: missing, a number, or a value that does not
\* parse to a number
Unset == [set |-> FALSE, nan |-> FALSE, val |-> 0]
SetTo(v) == [set |-> TRUE, nan |-> FALSE, val |-> v]
Unparsable == [set |-> TRUE, nan |-> TRUE, val |-> 0]

\* the style property of an element: missing, or an inline style string
NoStyle == [set |-> FALSE, str |-> <<>>]
StyleString(str) == [set |-> TRUE, str |-> str]

\* const classes = Array.isArray(node.properties.class) ? node.properties.class : []
ClassArray(node) == IF node.class.isArray THEN node.class.list ELSE <<>>

\* mutant: the class is pushed without the includes test
PushIfMissing_Always(classes, c) == Append(classes, c)

\* if (!classes.includes(c)) classes.push(c)
PushIfMissing(classes, c) == IF Includes(classes, c) THEN classes ELSE Append(classes, c)

AsArray(classes) == [isArray |-> TRUE, list |-> classes]

\* createLineNumberTransformer: const start = typeof config === 'object' ? config.start || 1 : 1
LineNumberStart(config) ==
  IF config.kind = "object"
    THEN (IF config.hasStart /\ config.start # 0 THEN config.start ELSE 1)
    ELSE 1

createLineNumberTransformer(config) ==
  Transformer("highlight-api-line-numbers", LineNumberStart(config), {}, {}, {})

LineNumberHook(t, node, line) ==
  LET c1 == PushIfMissing(ClassArray(node), "line")
      c2 == PushIfMissing(c1, "line-numbered")
  IN  [node EXCEPT !.dataLine = SetTo(line),
                   !.dataLineNumber = SetTo(t.start + line - 1),
                   !.class = AsArray(c2)]

createHighlightLinesTransformer(lines) ==
  Transformer("highlight-api-highlight-lines", 0, lines, {}, {})

\* mutant: the selector is read as zero-based
HighlightLinesHook_ZeroBased(t, node, line) ==
  LET c1 == PushIfMissing(ClassArray(node), "line")
      c2 == IF (line - 1) \in t.lines THEN PushIfMissing(c1, "highlighted") ELSE c1
  IN  [node EXCEPT !.dataLine = SetTo(line), !.class = AsArray(c2)]

HighlightLinesHook(t, node, line) ==
  LET c1 == PushIfMissing(ClassArray(node), "line")
      c2 == IF line \in t.lines THEN PushIfMissing(c1, "highlighted") ELSE c1
  IN  [node EXCEPT !.dataLine = SetTo(line), !.class = AsArray(c2)]

createDiffLinesTransformer(config) ==
  Transformer("highlight-api-diff-lines", 0, {}, SetOf(config.added), SetOf(config.removed))

DiffLinesHook(t, node, line) ==
  LET c1 == PushIfMissing(ClassArray(node), "line")
      c2 == IF line \in t.added \/ line \in t.removed
              THEN PushIfMissing(c1, "diff") ELSE c1
      c3 == IF (line \in t.added \/ line \in t.removed) /\ line \in t.added
              THEN PushIfMissing(c2, "add") ELSE c2
      c4 == IF (line \in t.added \/ line \in t.removed) /\ line \in t.removed
              THEN PushIfMissing(c3, "remove") ELSE c3
  IN  [node EXCEPT !.dataLine = SetTo(line), !.class = AsArray(c4)]

createFocusLinesTransformer(lines) ==
  Transformer("highlight-api-focus-lines", 0, lines, {}, {})

\* mutant: a focus entry covers every line up to it
FocusLinesHook_UpTo(t, node, line) ==
  LET c1 == PushIfMissing(ClassArray(node), "line")
      c2 == IF \E l \in t.lines : line <= l THEN PushIfMissing(c1, "focused") ELSE c1
  IN  [node EXCEPT !.dataLine = SetTo(line), !.class = AsArray(c2)]

FocusLinesHook(t, node, line) ==
  LET c1 == PushIfMissing(ClassArray(node), "line")
      c2 == IF line \in t.lines THEN PushIfMissing(c1, "focused") ELSE c1
  IN  [node EXCEPT !.dataLine = SetTo(line), !.class = AsArray(c2)]

\* A user-supplied transformer, as the test suite writes one: it keeps the
\* class array, ensures "line" and pushes "important" on line 1.
UserTransformer(name) == Transformer(name, 0, {}, {}, {})

UserCustomHook(t, node, line) ==
  LET c1 == PushIfMissing(ClassArray(node), "line")
      c2 == IF line = 1 THEN Append(c1, "important") ELSE c1
  IN  [node EXCEPT !.dataLine = SetTo(line), !.class = AsArray(c2)]

RECURSIVE JoinComma(_)
\* Array.prototype.toString: the elements joined by commas, one string
JoinComma(names) ==
  IF names = <<>> THEN ""
  ELSE IF Len(names) = 1 THEN names[1]
  ELSE names[1] \o "," \o JoinComma(Tail(names))

\* the class names of the string that `+=` makes of the class property
\* before it appends: an array becomes its elements joined by commas (one
\* name when there are two elements or more), a missing property becomes
\* 'undefined'
ClassToString(class) ==
  IF class.isArray
    THEN (IF class.list = <<>> THEN <<>> ELSE <<JoinComma(class.list)>>)
    ELSE IF class.list = <<>> THEN <<"undefined">>
    ELSE class.list

\* A user-supplied transformer that writes the class property in its string
\* form, as the engine itself does: node.properties.class += ' important'.
\* It assigns nothing else: data-line stays as it was.
UserStringClassHook(t, node, line) ==
  [node EXCEPT !.class = [isArray |-> FALSE,
                          list |-> ClassToString(node.class) \o <<"important">>]]

\* a user-supplied transformer whose line hook throws
HookThrows(t) == t.name = "user-throws"

\* the line hook of transformer t applied to one line element
LineHook(t, node, line) ==
  CASE t.name = "highlight-api-line-numbers"    -> LineNumberHook(t, node, line)
    [] t.name = "highlight-api-highlight-lines" -> HighlightLinesHook(t, node, line)
    [] t.name = "highlight-api-diff-lines"      -> DiffLinesHook(t, node, line)
    [] t.name = "highlight-api-focus-lines"     -> FocusLinesHook(t, node, line)
    [] t.name = "test-custom-2"                 -> UserCustomHook(t, node, line)
    [] t.name = "user-string-class"             -> UserStringClassHook(t, node, line)
    [] OTHER                                    -> node

UserTransformers(options) ==
  [i \in 1..Len(options.transformers) |-> UserTransformer(options.transformers[i])]

HighlightLineSet(hl) ==
  IF hl.kind = "string" THEN parseLineNumbers(hl.str) ELSE SetOf(hl.array)

\* mutant: the user's transformers are appended after the generated ones
buildTransformers_UserLast(options) ==
  (IF TruthyLineNumbers(options.lineNumbers)
     THEN <<createLineNumberTransformer(options.lineNumbers)>> ELSE <<>>)
    \o (IF TruthyHighlightLines(options.highlightLines)
          THEN <<createHighlightLinesTransformer(HighlightLineSet(options.highlightLines))>>
          ELSE <<>>)
    \o (IF options.diffLines.present
          THEN <<createDiffLinesTransformer(options.diffLines)>> ELSE <<>>)
    \o (IF options.focusLines.present /\ Len(options.focusLines.array) > 0
          THEN <<createFocusLinesTransformer(SetOf(options.focusLines.array))>> ELSE <<>>)
    \o UserTransformers(options)

buildTransformers(options) ==
  UserTransformers(options)
    \o (IF TruthyLineNumbers(options.lineNumbers)
          THEN <<createLineNumberTransformer(options.lineNumbers)>> ELSE <<>>)
    \o (IF TruthyHighlightLines(options.highlightLines)
          THEN <<createHighlightLinesTransformer(HighlightLineSet(options.highlightLines))>>
          ELSE <<>>)
    \o (IF options.diffLines.present
          THEN <<createDiffLinesTransformer(options.diffLines)>> ELSE <<>>)
    \o (IF options.focusLines.present /\ Len(options.focusLines.array) > 0
          THEN <<createFocusLinesTransformer(SetOf(options.focusLines.array))>> ELSE <<>>)

(***************************************************************************)
(* The engine (shiki), at its interface: codeToTokens gives one token      *)
(* sequence per physical line, the contents of a line's tokens             *)
(* concatenating to the line; codeToHast builds one line element per       *)
(* physical line and runs every transformer's line hook on it, in order,   *)
(* with the 1-based line number.  Both throw for a language that is        *)
(* neither loaded on the highlighter nor one of the engine's plain         *)
(* languages, and for a theme that is not loaded.  A plain language has no *)
(* grammar: each line is one token without a color.  The grammar of the    *)
(* loaded languages is the engine's own; it is kept here to its lexical    *)
(* classes, cut and colored as the repository's examples show the          *)
(* engine's output: a token is a word, a number, a quoted string or a run  *)
(* of punctuation, together with the blanks in front of it (' greet'), and *)
(* the theme (dark-plus) colors declaration keywords, control keywords,    *)
(* function names (a word in front of a parenthesis), other words,         *)
(* numbers, strings and the rest.                                          *)
(***************************************************************************)
PlainLangs == {"text", "plaintext", "txt", "plain"}
DefaultTheme == "dark-plus"
\* createHighlighter({ themes: ['dark-plus'], langs: [] })
LoadedThemes == {DefaultTheme}

Letters ==
  {"a", "b", "c", "d", "e", "f", "g", "h", "i", "j", "k", "l", "m", "n", "o",
   "p", "q", "r", "s", "t", "u", "v", "w", "x", "y", "z",
   "A", "B", "C", "D", "E", "F", "G", "H", "I", "J", "K", "L", "M", "N", "O",
   "P", "Q", "R", "S", "T", "U", "V", "W", "X", "Y", "Z", "_", "$"}
WordChars == Letters \cup Digits
Blanks == {" ", "\t"}
Quotes == {"'", "\""}
DeclarationKeywords ==
  {<<"c", "o", "n", "s", "t">>, <<"l", "e", "t">>, <<"v", "a", "r">>,
   <<"f", "u", "n", "c", "t", "i", "o", "n">>}
ControlKeywords ==
  {<<"r", "e", "t", "u", "r", "n">>, <<"i", "f">>, <<"e", "l", "s", "e">>}
KeywordColor == "#569CD6"
ControlColor == "#C586C0"
FunctionColor == "#DCDCAA"
WordColor == "#9CDCFE"
NumberColor == "#B5CEA8"
StringColor == "#CE9178"
OtherColor == "#D4D4D4"
\* the colour of a token the theme gives none
Undefined == "undefined"

Token(content, color) == [content |-> content, color |-> color]

\* the lexical class of a character
CharClass(c) ==
  CASE c \in Letters -> "word"
    [] c \in Digits  -> "number"
    [] c \in Blanks  -> "blank"
    [] c \in Quotes  -> "string"
    [] OTHER         -> "other"

RECURSIVE RunLength(_, _)
\* the length of the longest prefix of s that continues a token of the class
\* cls: a word goes on over letters and digits, a number over digits, blanks
\* over blanks, punctuation over what is none of these and no quote
RunLength(s, cls) ==
  IF s # <<>> /\ (CASE cls = "word"   -> Head(s) \in WordChars
                    [] cls = "number" -> Head(s) \in Digits
                    [] cls = "blank"  -> Head(s) \in Blanks
                    [] OTHER          -> Head(s) \notin WordChars \cup Blanks \cup Quotes)
    THEN 1 + RunLength(Tail(s), cls)
    ELSE 0

\* the length of the string literal that s starts with: up to the next
\* occurrence of its opening quote, or to the end of the line
StringLength(s) ==
  LET closing == {i \in 2..Len(s) : s[i] = s[1]}
  IN  IF closing = {} THEN Len(s)
      ELSE CHOOSE i \in closing : \A j \in closing : i <= j

\* the color the theme gives a token of the class cls with the text content
\* that is followed by the text after
TokenColor(cls, content, after) ==
  CASE cls = "word" /\ content \in DeclarationKeywords -> KeywordColor
    [] cls = "word" /\ content \in ControlKeywords     -> ControlColor
    [] cls = "word" /\ after # <<>> /\ Head(after) = "(" -> FunctionColor
    [] cls = "word"                                    -> WordColor
    [] cls = "number"                                  -> NumberColor
    [] cls = "string"                                  -> StringColor
    [] OTHER                                           -> OtherColor

RECURSIVE TokenizeLine(_)
\* the tokens of one line: the blanks in front of a token belong to it,
\* blanks at the end of the line are a token of their own
TokenizeLine(line) ==
  IF line = <<>> THEN <<>>
  ELSE LET lead == RunLength(line, "blank")
           rest == SubSeq(line, lead + 1, Len(line))
       IN  IF rest = <<>> THEN <<Token(line, OtherColor)>>
           ELSE LET cls   == CharClass(Head(rest))
                    n     == IF cls = "string" THEN StringLength(rest)
                                               ELSE RunLength(rest, cls)
                    after == SubSeq(rest, n + 1, Len(rest))
                IN  <<Token(SubSeq(line, 1, lead + n),
                            TokenColor(cls, SubSeq(rest, 1, n), after))>>
                      \o TokenizeLine(after)

\* highlighter.codeToTokens(code, {lang, theme}).tokens when it does not
\* throw: a plain language gives each line as one token without a color
codeToTokens(code, lang, theme) ==
  LET lines == SplitOn(code, NL)
  IN  [k \in 1..Len(lines) |->
         IF lang \in PlainLangs THEN <<Token(lines[k], Undefined)>>
                                ELSE TokenizeLine(lines[k])]

\* the line element as the engine creates it
NewLineElement ==
  [class |-> [isArray |-> FALSE, list |-> <<"line">>],
   dataLine |-> Unset, dataLineNumber |-> Unset, style |-> NoStyle]

RECURSIVE ApplyHooks(_, _, _)
ApplyHooks(transformers, node, line) ==
  IF transformers = <<>> THEN node
  ELSE ApplyHooks(Tail(transformers), LineHook(Head(transformers), node, line), line)

\* highlighter.codeToHast(code, {lang, theme, transformers}): the line
\* elements of the tree, in document order
codeToHast(code, transformers) ==
  LET lines == SplitOn(code, NL)
  IN  [k \in 1..Len(lines) |-> ApplyHooks(transformers, NewLineElement, k)]

\* the engine does not know the language or the theme of a call
UnknownToEngine(loadedLangs, lang, theme) ==
  \/ lang \notin loadedLangs \cup PlainLangs
  \/ theme \notin LoadedThemes

\* the annotate call throws: unknown language or theme, or a hook that throws
codeToHastThrows(loadedLangs, lang, theme, transformers) ==
  \/ UnknownToEngine(loadedLangs, lang, theme)
  \/ \E i \in 1..Len(transformers) : HookThrows(transformers[i])

\* the tokenize call throws: unknown language or theme
codeToTokensThrows(loadedLangs, lang, theme) == UnknownToEngine(loadedLangs, lang, theme)

(***************************************************************************)
(* Metadata (src/src/line-parser.ts:61-120 holds the Metadata type) and    *)
(* its extraction from the tree.                                           *)
(***************************************************************************)
EmptyMap == <<>>

createEmptyMetadata ==
  [defined |-> TRUE,
   lineNumbers |-> [kind |-> "false", start |-> 0],
   highlightedLines |-> {},
   diffLines |-> [added |-> {}, removed |-> {}],
   focusLines |-> {},
   lineClasses |-> EmptyMap,
   lineStyles |-> EmptyMap]

\* let metadata: Metadata | undefined
UndefinedMetadata == [createEmptyMetadata EXCEPT !.defined = FALSE]

\* an inline style string parsed into its declarations: split on ';', each
\* piece split on ':', both sides trimmed; a piece without a property or
\* without a value gives nothing, and a later declaration of a property
\* replaces an earlier one
ParseStyle(str) ==
  LET decls == SplitOn(str, ";")
      Parts(i) == SplitOn(decls[i], ":")
      Prop(i) == Trim(Parts(i)[1])
      Value(i) == Trim(Parts(i)[2])
      valid == {i \in 1..Len(decls) :
                  Len(Parts(i)) >= 2 /\ Prop(i) # <<>> /\ Value(i) # <<>>}
      Last(prop) == CHOOSE i \in valid :
                      Prop(i) = prop /\ \A j \in valid : Prop(j) = prop => j <= i
  IN  [prop \in {Prop(i) : i \in valid} |-> Value(Last(prop))]

\* mutant: a data-line that is present counts, whatever it parses to
Parsable_AnyValue(attr) == attr.set

Parsable(attr) == attr.set /\ ~attr.nan

RECURSIVE ConcatClasses(_, _)
\* the class lists of the elements of hast whose line number is n, in
\* document order
ConcatClasses(hast, n) ==
  IF hast = <<>> THEN <<>>
  ELSE (IF Includes(Head(hast).class.list, "line") /\ Parsable(Head(hast).dataLine)
           /\ Head(hast).dataLine.val = n
          THEN Head(hast).class.list ELSE <<>>)
       \o ConcatClasses(Tail(hast), n)

\* mutant: the class add alone marks a line as added
extractMetadata_AddWithoutDiff(hast) ==
  LET lineEls == {i \in 1..Len(hast) :
                    Includes(hast[i].class.list, "line") /\ Parsable(hast[i].dataLine)}
      HasClass(i, c) == Includes(hast[i].class.list, c)
      LinesWhere(P(_)) == {hast[i].dataLine.val : i \in {j \in lineEls : P(j)}}
      IsLine(i) == TRUE
      Highlighted(i) == HasClass(i, "highlighted")
      Added(i) == HasClass(i, "add")
      Removed(i) == HasClass(i, "diff") /\ HasClass(i, "remove")
      Focused(i) == HasClass(i, "focused") \/ HasClass(i, "has-focus")
      Styled(i) == hast[i].style.set
      LastStyled(n) == CHOOSE i \in lineEls :
                         /\ Styled(i) /\ hast[i].dataLine.val = n
                         /\ \A j \in lineEls :
                              (Styled(j) /\ hast[j].dataLine.val = n) => j <= i
      numbered == {i \in 1..Len(hast) : HasClass(i, "line-numbered")}
      first == CHOOSE i \in numbered : \A j \in numbered : i <= j
  IN  [defined |-> TRUE,
       lineNumbers |->
         IF numbered # {} /\ \A i \in numbered : Parsable(hast[i].dataLineNumber)
           THEN [kind |-> "object", start |-> hast[first].dataLineNumber.val]
           ELSE [kind |-> "false", start |-> 0],
       highlightedLines |-> LinesWhere(Highlighted),
       diffLines |-> [added |-> LinesWhere(Added), removed |-> LinesWhere(Removed)],
       focusLines |-> LinesWhere(Focused),
       lineClasses |-> [n \in LinesWhere(IsLine) |-> ConcatClasses(hast, n)],
       lineStyles |-> [n \in LinesWhere(Styled) |-> ParseStyle(hast[LastStyled(n)].style.str)]]

extractMetadata(hast) ==
  LET lineEls == {i \in 1..Len(hast) :
                    Includes(hast[i].class.list, "line") /\ Parsable(hast[i].dataLine)}
      HasClass(i, c) == Includes(hast[i].class.list, c)
      LinesWhere(P(_)) == {hast[i].dataLine.val : i \in {j \in lineEls : P(j)}}
      IsLine(i) == TRUE
      Highlighted(i) == HasClass(i, "highlighted")
      Added(i) == HasClass(i, "diff") /\ HasClass(i, "add")
      Removed(i) == HasClass(i, "diff") /\ HasClass(i, "remove")
      Focused(i) == HasClass(i, "focused") \/ HasClass(i, "has-focus")
      Styled(i) == hast[i].style.set
      LastStyled(n) == CHOOSE i \in lineEls :
                         /\ Styled(i) /\ hast[i].dataLine.val = n
                         /\ \A j \in lineEls :
                              (Styled(j) /\ hast[j].dataLine.val = n) => j <= i
      numbered == {i \in 1..Len(hast) : HasClass(i, "line-numbered")}
      first == CHOOSE i \in numbered : \A j \in numbered : i <= j
  IN  [defined |-> TRUE,
       lineNumbers |->
         IF numbered # {} /\ \A i \in numbered : Parsable(hast[i].dataLineNumber)
           THEN [kind |-> "object", start |-> hast[first].dataLineNumber.val]
           ELSE [kind |-> "false", start |-> 0],
       highlightedLines |-> LinesWhere(Highlighted),
       diffLines |-> [added |-> LinesWhere(Added), removed |-> LinesWhere(Removed)],
       focusLines |-> LinesWhere(Focused),
       lineClasses |-> [n \in LinesWhere(IsLine) |-> ConcatClasses(hast, n)],
       lineStyles |-> [n \in LinesWhere(Styled) |-> ParseStyle(hast[LastStyled(n)].style.str)]]

(***************************************************************************)
(* src/src/index.ts: the three generators and the statistics.  The markup  *)
(* is kept as its element structure: one line element [id, classes,        *)
(* children] per line, each child a leaf [class, text]; the stylesheet as  *)
(* its rules; the script as the data it serializes.                        *)
(***************************************************************************)
DigitChar(d) ==
  CASE d = 0 -> "0" [] d = 1 -> "1" [] d = 2 -> "2" [] d = 3 -> "3"
    [] d = 4 -> "4" [] d = 5 -> "5" [] d = 6 -> "6" [] d = 7 -> "7"
    [] d = 8 -> "8" [] d = 9 -> "9"

RECURSIVE NatToString(_)
NatToString(n) ==
  IF n < 10 THEN <<DigitChar(n)>>
  ELSE NatToString(n \div 10) \o <<DigitChar(n % 10)>>

\* `${n}` for an integer n
NumberToString(n) == IF n < 0 THEN <<"-">> \o NatToString(0 - n) ELSE NatToString(n)

\* mutant: the ampersand is replaced last, after the entities were inserted
EscapeHtml_AmpersandLast(line) ==
  LET r1 == ReplaceAll(line, "<", <<"&", "l", "t", ";">>)
      r2 == ReplaceAll(r1, ">", <<"&", "g", "t", ";">>)
      r3 == ReplaceAll(r2, "\"", <<"&", "q", "u", "o", "t", ";">>)
      r4 == ReplaceAll(r3, "'", <<"&", "#", "3", "9", ";">>)
  IN  ReplaceAll(r4, "&", <<"&", "a", "m", "p", ";">>)

\* the five replace calls of generateHtml, in the order the code makes them
EscapeHtml(line) ==
  LET r1 == ReplaceAll(line, "&", <<"&", "a", "m", "p", ";">>)
      r2 == ReplaceAll(r1, "<", <<"&", "l", "t", ";">>)
      r3 == ReplaceAll(r2, ">", <<"&", "g", "t", ";">>)
      r4 == ReplaceAll(r3, "\"", <<"&", "q", "u", "o", "t", ";">>)
  IN  ReplaceAll(r4, "'", <<"&", "#", "3", "9", ";">>)

Leaf(class, text) == [class |-> class, text |-> text]

\* mutant: lines are blurred without the focusLines.size > 0 test
LineClasses_BlurWithoutFocus(metadata, lineNum) ==
  LET c0 == IF metadata.defined /\ lineNum \in DOMAIN metadata.lineClasses
              THEN metadata.lineClasses[lineNum]
              ELSE <<"line">>
      c1 == IF ~Includes(c0, "line") THEN <<"line">> \o c0 ELSE c0
  IN  IF metadata.defined /\ lineNum \notin metadata.focusLines
        THEN PushIfMissing(c1, "blurred")
        ELSE c1

\* const classes = ... of generateHtml, for the line with 1-based number
\* lineNum
LineClasses(metadata, lineNum) ==
  LET c0 == IF metadata.defined /\ lineNum \in DOMAIN metadata.lineClasses
              THEN metadata.lineClasses[lineNum]
              ELSE <<"line">>
      c1 == IF ~Includes(c0, "line") THEN <<"line">> \o c0 ELSE c0
  IN  IF metadata.defined /\ metadata.focusLines # {} /\ lineNum \notin metadata.focusLines
        THEN PushIfMissing(c1, "blurred")
        ELSE c1

\* mutant: removed is looked up before added
DiffMarker_RemovedFirst(metadata, lineNum) ==
  IF ~metadata.defined THEN <<>>
  ELSE IF lineNum \in metadata.diffLines.removed THEN <<Leaf("diff-marker", <<"-">>)>>
  ELSE IF lineNum \in metadata.diffLines.added THEN <<Leaf("diff-marker", <<"+">>)>>
  ELSE <<>>

\* the diff marker of a line: added is looked up first
DiffMarker(metadata, lineNum) ==
  IF ~metadata.defined THEN <<>>
  ELSE IF lineNum \in metadata.diffLines.added THEN <<Leaf("diff-marker", <<"+">>)>>
  ELSE IF lineNum \in metadata.diffLines.removed THEN <<Leaf("diff-marker", <<"-">>)>>
  ELSE <<>>

\* typeof metadata.lineNumbers === 'object' ? metadata.lineNumbers.start || 1 : 1
MetadataStart(lineNumbers) ==
  IF lineNumbers.kind = "object"
    THEN (IF lineNumbers.start # 0 THEN lineNumbers.start ELSE 1)
    ELSE 1

\* mutant: without metadata the lines are numbered from 1
LineNumber_Always(metadata, i) ==
  IF metadata.defined /\ metadata.lineNumbers.kind # "false"
    THEN <<Leaf("line-number", NumberToString(MetadataStart(metadata.lineNumbers) + i))>>
    ELSE <<Leaf("line-number", NumberToString(1 + i))>>

\* the line-number element of the line with zero-based index i
LineNumber(metadata, i) ==
  IF metadata.defined /\ metadata.lineNumbers.kind # "false"
    THEN <<Leaf("line-number", NumberToString(MetadataStart(metadata.lineNumbers) + i))>>
    ELSE <<>>

\* the element of one line; i is its zero-based index
HtmlLine(line, i, blockId, metadata) ==
  [id |-> [block |-> blockId, index |-> i],
   classes |-> LineClasses(metadata, i + 1),
   children |-> DiffMarker(metadata, i + 1)
                  \o LineNumber(metadata, i)
                  \o <<Leaf("line-content", EscapeHtml(line))>>]

generateHtml(code, blockId, metadata) ==
  LET lines == SplitOn(code, NL)
  IN  [block |-> blockId,
       lines |-> [k \in 1..Len(lines) |-> HtmlLine(lines[k], k - 1, blockId, metadata)]]

RECURSIVE Flat(_)
\* tokens.flat()
Flat(tokens) == IF tokens = <<>> THEN <<>> ELSE Head(tokens) \o Flat(Tail(tokens))

\* token.color as a condition: undefined and the empty string are falsy
Truthy(color) == color # Undefined /\ color # ""

RECURSIVE CollectColors(_, _)
\* the keys of colorMap in insertion order: each truthy colour of the
\* flattened tokens, once, in the order it is first seen
CollectColors(flat, seen) ==
  IF flat = <<>> THEN seen
  ELSE CollectColors(Tail(flat),
         IF Truthy(Head(flat).color) /\ ~Includes(seen, Head(flat).color)
           THEN Append(seen, Head(flat).color) ELSE seen)

\* `hl-${blockId}-${colorIndex}`
HighlightName(blockId, colorIndex) == [block |-> blockId, index |-> colorIndex]

\* mutant: colorIndex is incremented before it is used (++colorIndex)
CssColorMap_FromOne(tokens, blockId) ==
  LET colors == CollectColors(Flat(tokens), <<>>)
  IN  [k \in 1..Len(colors) |->
         [color |-> colors[k], name |-> HighlightName(blockId, k)]]

\* the colorMap of generateCss, as its entries in insertion order
CssColorMap(tokens, blockId) ==
  LET colors == CollectColors(Flat(tokens), <<>>)
  IN  [k \in 1..Len(colors) |->
         [color |-> colors[k], name |-> HighlightName(blockId, k - 1)]]

\* mutant: the diff rules are gated on the added lines alone
LineStyleRules_AddedOnly(metadata) ==
  IF ~metadata.defined THEN <<>>
  ELSE (IF metadata.highlightedLines # {} THEN <<"highlighted">> ELSE <<>>)
    \o (IF metadata.diffLines.added # {} THEN <<"diff">> ELSE <<>>)
    \o (IF metadata.focusLines # {} THEN <<"blurred">> ELSE <<>>)
    \o (IF metadata.lineNumbers.kind # "false" THEN <<"line-number">> ELSE <<>>)

\* the rule groups generateCss adds for the line features
LineStyleRules(metadata) ==
  IF ~metadata.defined THEN <<>>
  ELSE (IF metadata.highlightedLines # {} THEN <<"highlighted">> ELSE <<>>)
    \o (IF metadata.diffLines.added # {} \/ metadata.diffLines.removed # {}
          THEN <<"diff">> ELSE <<>>)
    \o (IF metadata.focusLines # {} THEN <<"blurred">> ELSE <<>>)
    \o (IF metadata.lineNumbers.kind # "false" THEN <<"line-number">> ELSE <<>>)

generateCss(tokens, blockId, metadata) ==
  [block |-> blockId,
   tokenRules |-> CssColorMap(tokens, blockId),
   lineStyles |-> LineStyleRules(metadata)]

RECURSIVE LineRanges(_, _, _)
\* the ranges of one line of tokens; offset is the running offset
LineRanges(line, lineIndex, offset) ==
  IF line = <<>> THEN <<>>
  ELSE (IF Truthy(Head(line).color)
          THEN <<[line |-> lineIndex, start |-> offset,
                  end |-> offset + Len(Head(line).content),
                  color |-> Head(line).color]>>
          ELSE <<>>)
       \o LineRanges(Tail(line), lineIndex, offset + Len(Head(line).content))

RECURSIVE AllRanges(_, _)
\* tokens.forEach((line, lineIndex) => ...), from the line with index k
AllRanges(tokens, k) ==
  IF k > Len(tokens) THEN <<>>
  ELSE LineRanges(tokens[k], k - 1, 0) \o AllRanges(tokens, k + 1)

\* mutant: the script numbers its names from 1
ScriptColorMap_FromOne(tokens, blockId) ==
  LET colors == CollectColors(Flat(tokens), <<>>)
  IN  [k \in 1..Len(colors) |->
         [color |-> colors[k], name |-> HighlightName(blockId, k)]]

\* the colorMap of generateScript, built by its own loop
ScriptColorMap(tokens, blockId) ==
  LET colors == CollectColors(Flat(tokens), <<>>)
  IN  [k \in 1..Len(colors) |->
         [color |-> colors[k], name |-> HighlightName(blockId, k - 1)]]

RECURSIVE LineText(_)
\* the text of one line of tokens
LineText(line) ==
  IF line = <<>> THEN <<>> ELSE Head(line).content \o LineText(Tail(line))

RECURSIVE RangesNoReset(_, _, _)
\* the ranges with `let offset = 0` outside the loop over the lines
RangesNoReset(tokens, k, offset) ==
  IF k > Len(tokens) THEN <<>>
  ELSE LineRanges(tokens[k], k - 1, offset)
         \o RangesNoReset(tokens, k + 1, offset + Len(LineText(tokens[k])))

\* mutant: the running offset is not reset at the start of a line
generateScript_NoOffsetReset(tokens, blockId) ==
  [block |-> blockId,
   colorMap |-> ScriptColorMap(tokens, blockId),
   ranges |-> RangesNoReset(tokens, 1, 0)]

\* mutant: the ranges carry 1-based line numbers
generateScript_OneBasedLines(tokens, blockId) ==
  [block |-> blockId,
   colorMap |-> ScriptColorMap(tokens, blockId),
   ranges |-> [i \in 1..Len(AllRanges(tokens, 1)) |->
                 [AllRanges(tokens, 1)[i] EXCEPT !.line = @ + 1]]]

generateScript(tokens, blockId) ==
  [block |-> blockId,
   colorMap |-> ScriptColorMap(tokens, blockId),
   ranges |-> AllRanges(tokens, 1)]

\* mutant: only the lines that hold a token are counted
Stats_NonEmptyLines(tokens) ==
  [tokens |-> Len(Flat(tokens)),
   lines |-> Cardinality({k \in 1..Len(tokens) : tokens[k] # <<>>}),
   uniqueStyles |-> Cardinality({Flat(tokens)[i].color : i \in 1..Len(Flat(tokens))})]

\* the stats of codeToHighlightHtml
Stats(tokens) ==
  [tokens |-> Len(Flat(tokens)),
   lines |-> Len(tokens),
   uniqueStyles |-> Cardinality({Flat(tokens)[i].color : i \in 1..Len(Flat(tokens))})]

(***************************************************************************)
(* codeToHighlightHtml after `await getHighlighter()`: no await follows,   *)
(* so the rest of the call is one step.  loadedLangs are the languages     *)
(* loaded on the highlighter the call holds.                               *)
(***************************************************************************)
Result(html, css, script, stats) ==
  [defined |-> TRUE, html |-> html, css |-> css, script |-> script, stats |-> stats]

\* a call that has returned nothing (yet, or because it rejected)
NoResult ==
  [defined |-> FALSE,
   html |-> [block |-> "", lines |-> <<>>],
   css |-> [block |-> "", tokenRules |-> <<>>, lineStyles |-> <<>>],
   script |-> [block |-> "", colorMap |-> <<>>, ranges |-> <<>>],
   stats |-> [tokens |-> 0, lines |-> 0, uniqueStyles |-> 0]]

\* what a call has done so far: the engine calls it made, the warning it
\* logged, the metadata it extracted, how it ended and what it returned
NoOutcome ==
  [annotateCalls |-> 0, tokenizeCalls |-> 0, warned |-> FALSE,
   metadata |-> UndefinedMetadata, rejected |-> FALSE, result |-> NoResult]

\* mutant: the annotator is called on the fast path too
AnnotateCalls_Always(transformers) == 1

\* if (transformers.length > 0): the annotator is called
AnnotateCalls(transformers) == IF Len(transformers) > 0 THEN 1 ELSE 0

\* mutant: a failed annotation is not turned into "no metadata"
AnnotatedMetadata_NoFallback(loadedLangs, code, lang, theme, transformers) ==
  IF Len(transformers) > 0 /\ ~UnknownToEngine(loadedLangs, lang, theme)
    THEN extractMetadata(codeToHast(code, transformers))
    ELSE UndefinedMetadata

\* try { ... metadata = extractMetadata(hast) } catch (error) { console.warn(...) }
AnnotatedMetadata(loadedLangs, code, lang, theme, transformers) ==
  IF Len(transformers) > 0 /\ ~codeToHastThrows(loadedLangs, lang, theme, transformers)
    THEN extractMetadata(codeToHast(code, transformers))
    ELSE UndefinedMetadata

\* mutant: on the slow path the tokenizer's exception is swallowed as well
TokenizeRejects_FastPathOnly(loadedLangs, lang, theme, transformers) ==
  Len(transformers) = 0 /\ codeToTokensThrows(loadedLangs, lang, theme)

\* the exception of codeToTokens is not caught: the call rejects
TokenizeRejects(loadedLangs, lang, theme, transformers) ==
  codeToTokensThrows(loadedLangs, lang, theme)

\* const { lang, theme = 'dark-plus', blockId = generateId() } = options
ThemeOf(options) == IF options.theme = Undefined THEN DefaultTheme ELSE options.theme

\* generateId(): 'hl-' and up to nine base-36 digits of Math.random()
GeneratedIds == {"hl-dmn38xb9n", "hl-i"}

\* the call with the identifier generateId() returned at its start (used
\* when options has no blockId)
codeToHighlightHtml(loadedLangs, code, options, generatedId) ==
  LET lang         == options.lang
      theme        == ThemeOf(options)
      blockId      == IF options.blockId = Undefined THEN generatedId ELSE options.blockId
      transformers == buildTransformers(options)
      annotated    == AnnotateCalls(transformers) > 0
      annotateThrew == annotated /\ codeToHastThrows(loadedLangs, lang, theme, transformers)
      metadata     == AnnotatedMetadata(loadedLangs, code, lang, theme, transformers)
      tokens       == codeToTokens(code, lang, theme)
  IN  IF TokenizeRejects(loadedLangs, lang, theme, transformers)
        THEN [annotateCalls |-> AnnotateCalls(transformers), tokenizeCalls |-> 1,
              warned |-> annotateThrew, metadata |-> metadata,
              rejected |-> TRUE, result |-> NoResult]
        ELSE [annotateCalls |-> AnnotateCalls(transformers), tokenizeCalls |-> 1,
              warned |-> annotateThrew, metadata |-> metadata,
              rejected |-> FALSE,
              result |-> Result(generateHtml(code, blockId, metadata),
                                generateCss(tokens, blockId, metadata),
                                generateScript(tokens, blockId),
                                Stats(tokens))]

(***************************************************************************)
(* The calls of one run.                                                   *)
(***************************************************************************)
Calls == 1..NumCalls
Null == 0

Options(lang, blockId, transformers, lineNumbers, highlightLines, diffLines, focusLines) ==
  [lang |-> lang, theme |-> Undefined, blockId |-> blockId,
   transformers |-> transformers,
   lineNumbers |-> lineNumbers, highlightLines |-> highlightLines,
   diffLines |-> diffLines, focusLines |-> focusLines]

\* the options with theme: name
WithTheme(options, name) == [options EXCEPT !.theme = name]

\* { lang, blockId } and nothing else
PlainOptions(lang, blockId) ==
  Options(lang, blockId, <<>>, LnAbsent, HlAbsent, DlAbsent, FlAbsent)

NoInput == [kind |-> "none", code |-> <<>>, options |-> PlainOptions("", ""), grammar |-> ""]
RenderInput(code, options) ==
  [kind |-> "render", code |-> code, options |-> options, grammar |-> ""]
LoadInput(grammar) ==
  [kind |-> "load", code |-> <<>>, options |-> PlainOptions("", ""), grammar |-> grammar]
\* codeToHtmlFallback(code, options)
FallbackInput(code, options) ==
  [kind |-> "fallback", code |-> code, options |-> options, grammar |-> ""]
\* createCustomHighlighter({ themes, langs }): each an array or absent,
\* written as the optional array focusLines is
CustomInput(themes, langs) ==
  [kind |-> "custom", code |-> <<>>, options |-> PlainOptions("", ""), grammar |-> "",
   themes |-> themes, langs |-> langs]

VARIABLES
  highlighterInstance,  \* let highlighterInstance: Null or an instance
  created,              \* the instances createHighlighter has resolved with
  loaded,               \* loaded[i]: the languages loaded on instance i
  createCalls,          \* invocations of the factory createHighlighter
  failures,             \* engine calls that rejected
  input,                \* input[p]: the call p and its arguments
  pc,                   \* pc[p]: where call p stands
  target,               \* target[p]: the instance whose loadLanguage p awaits
  hl,                   \* hl[p]: const highlighter = await getHighlighter()
  afterLoad,            \* afterLoad[p]: p began after a load of its lang resolved
  out                   \* out[p]: what call p has done and returned

vars == <<highlighterInstance, created, loaded, createCalls, failures,
          input, pc, target, hl, afterLoad, out>>

(***************************************************************************)
(* getHighlighter, codeToHighlightHtml, loadCustomLanguage,                *)
(* codeToHtmlFallback and createCustomHighlighter as the steps             *)
(* between their awaits.  A call runs from one await to the next without   *)
(* interruption; the engine's promises (createHighlighter, loadLanguage)   *)
(* settle in any order.                                                    *)
(*   "idle"           not yet called                                       *)
(*   "creating"       at `await createHighlighter(...)`                    *)
(*   "loadingJs"      at `await highlighterInstance.loadLanguage(js)`      *)
(*   "loadingTs"      at `await highlighterInstance.loadLanguage(ts)`      *)
(*   "gotHighlighter" at `await getHighlighter()`, the promise resolved    *)
(*   "loadingCustom"  at `await highlighter.loadLanguage(grammar)`         *)
(*   "creatingCustom" createCustomHighlighter at the promise of            *)
(*                    createHighlighter(...) it returned                   *)
(*   "resolved", "rejected"   the call's promise has settled               *)
(***************************************************************************)
JavaScript == "javascript"
TypeScript == "typescript"

Settled(p) == pc[p] \in {"resolved", "rejected"}

\* the call p is made: it runs to its first await.  getHighlighter returns
\* the instance when there is one and calls the factory when there is none.
\* Calls are numbered in the order they are made.
Start(p) ==
  /\ pc[p] = "idle"
  /\ input[p].kind \in {"render", "load", "fallback"}
  /\ \A q \in Calls : q < p => pc[q] # "idle"
  /\ afterLoad' = [afterLoad EXCEPT ![p] =
         /\ input[p].kind = "render"
         /\ \E q \in Calls : /\ input[q].kind = "load"
                             /\ input[q].grammar = input[p].options.lang
                             /\ pc[q] = "resolved"]
  /\ IF highlighterInstance # Null
       THEN /\ hl' = [hl EXCEPT ![p] = highlighterInstance]
            /\ pc' = [pc EXCEPT ![p] = "gotHighlighter"]
            /\ UNCHANGED createCalls
       ELSE /\ createCalls' = createCalls + 1
            /\ pc' = [pc EXCEPT ![p] = "creating"]
            /\ UNCHANGED hl
  /\ UNCHANGED <<highlighterInstance, created, loaded, failures, input, target, out>>

\* createHighlighter resolves with a new instance: it is assigned to
\* highlighterInstance, and loadLanguage(javascript) is called on it
CreateResolved(p) ==
  /\ pc[p] = "creating"
  /\ created' = created + 1
  /\ highlighterInstance' = created + 1
  /\ target' = [target EXCEPT ![p] = created + 1]
  /\ pc' = [pc EXCEPT ![p] = "loadingJs"]
  /\ UNCHANGED <<loaded, createCalls, failures, input, hl, afterLoad, out>>

\* an awaited engine call of p rejects: the call p rejects with it
EngineRejected(p) ==
  /\ pc[p] \in {"creating", "loadingJs", "loadingTs", "loadingCustom", "creatingCustom"}
  /\ failures < MaxFailures
  /\ failures' = failures + 1
  /\ pc' = [pc EXCEPT ![p] = "rejected"]
  /\ out' = [out EXCEPT ![p].rejected = TRUE]
  /\ UNCHANGED <<highlighterInstance, created, loaded, createCalls, input,
                 target, hl, afterLoad>>

\* loadLanguage(javascript) resolves; loadLanguage(typescript) is called on
\* what highlighterInstance holds now
LoadJsResolved(p) ==
  /\ pc[p] = "loadingJs"
  /\ loaded' = [loaded EXCEPT ![target[p]] = @ \cup {JavaScript}]
  /\ target' = [target EXCEPT ![p] = highlighterInstance]
  /\ pc' = [pc EXCEPT ![p] = "loadingTs"]
  /\ UNCHANGED <<highlighterInstance, created, createCalls, failures, input,
                 hl, afterLoad, out>>

\* loadLanguage(typescript) resolves; getHighlighter returns what
\* highlighterInstance holds now
LoadTsResolved(p) ==
  /\ pc[p] = "loadingTs"
  /\ loaded' = [loaded EXCEPT ![target[p]] = @ \cup {TypeScript}]
  /\ hl' = [hl EXCEPT ![p] = highlighterInstance]
  /\ pc' = [pc EXCEPT ![p] = "gotHighlighter"]
  /\ UNCHANGED <<highlighterInstance, created, createCalls, failures, input,
                 target, afterLoad, out>>

\* codeToHighlightHtml continues with its highlighter and settles.  A call
\* without blockId uses the identifier generateId() drew from Math.random
\* when the call was made: any of the identifiers.
Render(p) ==
  /\ pc[p] = "gotHighlighter"
  /\ input[p].kind = "render"
  /\ \E id \in (IF input[p].options.blockId = Undefined THEN GeneratedIds
                                                          ELSE {Undefined}) :
       LET o == codeToHighlightHtml(loaded[hl[p]], input[p].code, input[p].options, id)
       IN  /\ out' = [out EXCEPT ![p] = o]
           /\ pc' = [pc EXCEPT ![p] = IF o.rejected THEN "rejected" ELSE "resolved"]
  /\ UNCHANGED <<highlighterInstance, created, loaded, createCalls, failures,
                 input, target, hl, afterLoad>>

\* loadCustomLanguage continues: highlighter.loadLanguage(grammar) is called
LoadCustomStart(p) ==
  /\ pc[p] = "gotHighlighter"
  /\ input[p].kind = "load"
  /\ target' = [target EXCEPT ![p] = hl[p]]
  /\ pc' = [pc EXCEPT ![p] = "loadingCustom"]
  /\ UNCHANGED <<highlighterInstance, created, loaded, createCalls, failures,
                 input, hl, afterLoad, out>>

\* highlighter.loadLanguage(grammar) resolves, and loadCustomLanguage with it
LoadCustomResolved(p) ==
  /\ pc[p] = "loadingCustom"
  /\ loaded' = [loaded EXCEPT ![target[p]] = @ \cup {input[p].grammar}]
  /\ pc' = [pc EXCEPT ![p] = "resolved"]
  /\ UNCHANGED <<highlighterInstance, created, createCalls, failures, input,
                 target, hl, afterLoad, out>>

\* options.theme || 'dark-plus'
ThemeOrDefault(options) ==
  IF options.theme \in {Undefined, ""} THEN DefaultTheme ELSE options.theme

\* what a codeToHtmlFallback call returned: the engine's markup, kept as the
\* colored tokens of each line
FallbackHtml(tokens) == [kind |-> "fallback", rejected |-> FALSE, html |-> tokens]

\* codeToHtmlFallback continues with its highlighter: highlighter.codeToHtml
\* is called and the call settles with it
Fallback(p) ==
  /\ pc[p] = "gotHighlighter"
  /\ input[p].kind = "fallback"
  /\ LET lang  == input[p].options.lang
         theme == ThemeOrDefault(input[p].options)
     IN  IF UnknownToEngine(loaded[hl[p]], lang, theme)
           THEN /\ out' = [out EXCEPT ![p].rejected = TRUE]
                /\ pc' = [pc EXCEPT ![p] = "rejected"]
           ELSE /\ out' = [out EXCEPT ![p] =
                            FallbackHtml(codeToTokens(input[p].code, lang, theme))]
                /\ pc' = [pc EXCEPT ![p] = "resolved"]
  /\ UNCHANGED <<highlighterInstance, created, loaded, createCalls, failures,
                 input, target, hl, afterLoad>>

\* createCustomHighlighter is called: it invokes the factory and returns the
\* factory's promise; highlighterInstance is not involved
CreateCustomStart(p) ==
  /\ pc[p] = "idle"
  /\ input[p].kind = "custom"
  /\ \A q \in Calls : q < p => pc[q] # "idle"
  /\ createCalls' = createCalls + 1
  /\ pc' = [pc EXCEPT ![p] = "creatingCustom"]
  /\ UNCHANGED <<highlighterInstance, created, loaded, failures, input, target,
                 hl, afterLoad, out>>

\* the highlighter a createCustomHighlighter call resolved with
CustomHighlighter(instance, themes, langs) ==
  [kind |-> "highlighter", rejected |-> FALSE, instance |-> instance,
   themes |-> themes, langs |-> langs]

\* the factory resolves with a new instance that has the requested themes
\* and languages; the caller alone holds it
CreateCustomResolved(p) ==
  /\ pc[p] = "creatingCustom"
  /\ created' = created + 1
  /\ LET \* options.themes || ['dark-plus'], options.langs || []
         themes == IF input[p].themes.present THEN input[p].themes.array
                                              ELSE <<DefaultTheme>>
         langs  == IF input[p].langs.present THEN input[p].langs.array ELSE <<>>
     IN  /\ loaded' = [loaded EXCEPT ![created + 1] = SetOf(langs)]
         /\ out' = [out EXCEPT ![p] = CustomHighlighter(created + 1, themes, langs)]
  /\ pc' = [pc EXCEPT ![p] = "resolved"]
  /\ UNCHANGED <<highlighterInstance, createCalls, failures, input, target, hl,
                 afterLoad>>

(***************************************************************************)
(* Spec: concurrent calls on a fresh module (no highlighter yet).          *)
(***************************************************************************)
CustomLang == "mylang"

\* the calls of the concurrent runs
CallInputs ==
  {LoadInput(CustomLang),
   RenderInput(<<"a">>, PlainOptions(JavaScript, "b1")),
   RenderInput(<<"a">>, PlainOptions(CustomLang, "b2")),
   FallbackInput(<<"a">>, PlainOptions(JavaScript, "")),
   CustomInput(FlArray(<<"monokai">>), FlAbsent)}

Init ==
  /\ highlighterInstance = Null
  /\ created = 0
  /\ loaded = [i \in Calls |-> {}]
  /\ createCalls = 0
  /\ failures = 0
  /\ input \in [Calls -> CallInputs]
  /\ pc = [p \in Calls |-> "idle"]
  /\ target = [p \in Calls |-> Null]
  /\ hl = [p \in Calls |-> Null]
  /\ afterLoad = [p \in Calls |-> FALSE]
  /\ out = [p \in Calls |-> NoOutcome]

Next ==
  \E p \in Calls :
    \/ Start(p)
    \/ CreateResolved(p)
    \/ LoadJsResolved(p)
    \/ LoadTsResolved(p)
    \/ Render(p)
    \/ LoadCustomStart(p)
    \/ LoadCustomResolved(p)
    \/ Fallback(p)
    \/ CreateCustomStart(p)
    \/ CreateCustomResolved(p)

Spec == Init /\ [][Next]_vars

(***************************************************************************)
(* SpecFailure: the same calls, where engine calls may also reject.        *)
(***************************************************************************)
NextFailure == Next \/ \E p \in Calls : EngineRejected(p)

SpecFailure == Init /\ [][NextFailure]_vars

(***************************************************************************)
(* SpecRender: one codeToHighlightHtml call on a module whose highlighter  *)
(* an earlier call has initialized (javascript and typescript loaded), its *)
(* arguments drawn from RenderInputs.                                      *)
(***************************************************************************)
UnknownLang == "invalid-language-xyz"

RECURSIVE SetToSeq(_)
\* the members of a set of integers as an array, ascending
SetToSeq(S) ==
  IF S = {} THEN <<>>
  ELSE LET m == CHOOSE x \in S : \A y \in S : x <= y
       IN  <<m>> \o SetToSeq(S \ {m})

LineArrays == {SetToSeq(S) : S \in SUBSET (1..MaxLineNo)}

CodeAlphabet == {"a", "1", "&", NL}
Codes == UNION {[1..n -> CodeAlphabet] : n \in 0..MaxCodeLen}

TrAll == {<<>>, <<"test-custom-2">>, <<"user-throws">>}

StartValues == ((0 - 1)..MaxStart) \cup {10}
LnAll == {LnAbsent, LnBool(TRUE), LnBool(FALSE), LnEmptyObj}
           \cup {LnStart(v) : v \in StartValues}

HlStrings ==
  {<<>>, <<"1", ",", "3">>, <<"2", "-", "3">>, <<"3", "-", "2">>,
   <<" ", "1", ",", "x">>}
HlAll == {HlAbsent} \cup {HlArray(a) : a \in LineArrays}
           \cup {HlString(t) : t \in HlStrings}
HlSmall == {HlAbsent, HlArray(<<1, 3>>), HlString(<<"2", "-", "3">>)}

DlAll == {DlAbsent} \cup {DlObj(a, r) : a \in LineArrays, r \in LineArrays}
DlSmall == {DlAbsent, DlObj(<<1>>, <<2>>), DlObj(<<1>>, <<1, 2>>)}

FlAll == {FlAbsent} \cup {FlArray(a) : a \in LineArrays}
FlSmall == {FlAbsent, FlArray(<<>>), FlArray(<<2>>)}

\* selectors that name the last line numbers only: beyond a short source
HlBeyond == {HlAbsent, HlArray(<<MaxLineNo>>), HlString(<<"2", "-", "3">>)}
DlBeyond == {DlAbsent, DlObj(<<MaxLineNo - 1>>, <<MaxLineNo>>), DlObj(<<>>, <<MaxLineNo>>)}
FlBeyond == {FlAbsent, FlArray(<<MaxLineNo>>)}
BeyondOptions ==
  {Options(JavaScript, "b1", tr, ln, h, d, f) :
     tr \in {<<>>, <<"test-custom-2">>}, ln \in {LnAbsent, LnBool(TRUE)},
     h \in HlBeyond, d \in DlBeyond, f \in FlBeyond}

\* two user transformers, in both orders
TrPairs == {<<"test-custom-2", "user-throws">>, <<"user-throws", "test-custom-2">>}

PlainLang == "text"
UnloadedTheme == "monokai"

\* a plain language of the engine, with and without line features
PlainLangOptions ==
  {Options(PlainLang, "b1", tr, ln, h, DlAbsent, f) :
     tr \in {<<>>, <<"test-custom-2">>}, ln \in {LnAbsent, LnBool(TRUE)},
     h \in HlSmall, f \in FlSmall}

\* the theme named: the loaded one, and one that was never loaded
ThemeOptions ==
  {WithTheme(Options(JavaScript, "b1", tr, ln, HlAbsent, DlAbsent, FlAbsent), th) :
     tr \in {<<>>, <<"test-custom-2">>}, ln \in {LnAbsent, LnBool(TRUE)},
     th \in {DefaultTheme, UnloadedTheme}}

\* no blockId: generateId() supplies one
NoBlockIdOptions ==
  {Options(JavaScript, Undefined, <<>>, ln, HlAbsent, DlAbsent, FlAbsent) :
     ln \in {LnAbsent, LnBool(TRUE)}}

\* every combination of a few values of each option, and each line feature
\* alone over all its values
RenderOptions ==
  {Options(JavaScript, "b1", tr, ln, h, d, f) :
     tr \in TrAll, ln \in LnAll, h \in HlSmall, d \in DlSmall, f \in FlSmall}
  \cup {Options(JavaScript, "b1", <<>>, LnAbsent, h, DlAbsent, FlAbsent) : h \in HlAll}
  \cup {Options(JavaScript, "b1", <<>>, LnAbsent, HlAbsent, d, FlAbsent) : d \in DlAll}
  \cup {Options(JavaScript, "b1", <<>>, LnAbsent, HlAbsent, DlAbsent, f) : f \in FlAll}
  \cup {Options(UnknownLang, "b1", tr, ln, HlAbsent, DlAbsent, FlAbsent) :
          tr \in TrAll, ln \in {LnAbsent, LnBool(TRUE)}}
  \cup BeyondOptions
  \cup PlainLangOptions
  \cup ThemeOptions
  \cup NoBlockIdOptions
  \cup {Options(JavaScript, "b1", tr, ln, h, d, f) :
          tr \in TrPairs, ln \in {LnAbsent, LnBool(TRUE)},
          h \in HlSmall, d \in DlSmall, f \in FlSmall}

RenderInputs == {RenderInput(c, o) : c \in Codes, o \in RenderOptions}

InitRender ==
  /\ highlighterInstance = 1
  /\ created = 1
  /\ loaded = [i \in Calls |-> IF i = 1 THEN {JavaScript, TypeScript} ELSE {}]
  /\ createCalls = 1
  /\ failures = 0
  /\ \E r \in RenderInputs : input = [p \in Calls |-> IF p = 1 THEN r ELSE NoInput]
  /\ pc = [p \in Calls |-> "idle"]
  /\ target = [p \in Calls |-> Null]
  /\ hl = [p \in Calls |-> Null]
  /\ afterLoad = [p \in Calls |-> FALSE]
  /\ out = [p \in Calls |-> NoOutcome]

NextRender == \E p \in Calls : Start(p) \/ Render(p)

SpecRender == InitRender /\ [][NextRender]_vars

(***************************************************************************)
(* The claims.                                                             *)
(***************************************************************************)
Renders == {p \in Calls : input[p].kind = "render"}
Resolved == {p \in Renders : pc[p] = "resolved"}
\* the calls that returned with the annotator skipped or successful
Annotated == {p \in Resolved : ~out[p].warned}

CodeOf(p) == input[p].code
OptionsOf(p) == input[p].options
HtmlLines(p) == out[p].result.html.lines
\* the engine knows the language and the theme of the call
EngineAccepts(p) ==
  /\ OptionsOf(p).lang \in loaded[hl[p]] \cup PlainLangs
  /\ ThemeOf(OptionsOf(p)) \in LoadedThemes
\* the block identifier a call rendered with
UsedId(p) == out[p].result.html.block
\* the number of lines of a source text: one more than its newlines
LineCount(code) == Cardinality({i \in 1..Len(code) : code[i] = NL}) + 1
HasClass(element, c) == \E i \in 1..Len(element.classes) : element.classes[i] = c
ChildrenOf(element, c) == SelectSeq(element.children, LAMBDA leaf : leaf.class = c)

\* the factory calls made for the shared highlighter: all but those of
\* createCustomHighlighter
SharedFactoryCalls ==
  createCalls - Cardinality({p \in Calls : input[p].kind = "custom" /\ pc[p] # "idle"})

\* C1: N >= 2 calls that all start before the shared highlighter is
\* initialized invoke the factory createHighlighter exactly once, and all of
\* them receive that single instance.
C1_SingleInitialization ==
  /\ SharedFactoryCalls <= 1
  /\ \A p, q \in Calls : hl[p] # Null /\ hl[q] # Null => hl[p] = hl[q]

\* C2: when the transformer list is non-empty and the annotate call throws
\* while the tokenize call succeeds, codeToHighlightHtml resolves, logs a
\* warning and returns what the same call without any feature or transformer
\* option returns.
C2_AnnotationFailureFallsBack ==
  \A p \in Renders :
    LET transformers == buildTransformers(OptionsOf(p))
        langs == loaded[hl[p]]
    IN  (/\ Settled(p)
         /\ Len(transformers) > 0
         /\ codeToHastThrows(langs, OptionsOf(p).lang, ThemeOf(OptionsOf(p)), transformers)
         /\ ~codeToTokensThrows(langs, OptionsOf(p).lang, ThemeOf(OptionsOf(p))))
        => /\ pc[p] = "resolved"
           /\ out[p].warned
           /\ out[p].result.defined
           /\ out[p].result =
                codeToHighlightHtml(langs, CodeOf(p),
                  WithTheme(PlainOptions(OptionsOf(p).lang, OptionsOf(p).blockId),
                            OptionsOf(p).theme),
                  UsedId(p)).result

\* a call with line numbers, highlighted, diff and focus lines requested on
\* two lines or more, whose transformer threw, has returned
C2_Witness ==
  \E p \in Resolved :
    /\ out[p].warned
    /\ LineCount(CodeOf(p)) >= 2
    /\ TruthyLineNumbers(OptionsOf(p).lineNumbers)
    /\ OptionsOf(p).highlightLines.kind = "array"
    /\ OptionsOf(p).diffLines.present
    /\ OptionsOf(p).focusLines.array # <<>>

\* C3: in every call the annotator is invoked iff buildTransformers returned
\* a non-empty list, and then once; the tokenizer is invoked exactly once,
\* whether the annotator was skipped, succeeded or failed.
C3_PathDecidedOnce ==
  \A p \in Renders :
    /\ out[p].annotateCalls \in {0, 1}
    /\ out[p].tokenizeCalls \in {0, 1}
    /\ Settled(p) =>
         /\ out[p].annotateCalls = 1 <=> Len(buildTransformers(OptionsOf(p))) > 0
         /\ out[p].tokenizeCalls = 1
    /\ ~Settled(p) => out[p].annotateCalls = 0 /\ out[p].tokenizeCalls = 0

\* a call whose annotator failed has tokenized once and returned
C3_Witness ==
  \E p \in Resolved :
    out[p].warned /\ out[p].annotateCalls = 1 /\ out[p].tokenizeCalls = 1

\* C4: once loadCustomLanguage(g) has resolved, every codeToHighlightHtml
\* call started afterwards with lang = g holds a highlighter on which g is
\* loaded, and does not fail as an unknown language.
C4_LoadedLanguageAvailable ==
  \A p \in Renders :
    afterLoad[p] =>
      /\ hl[p] # Null => OptionsOf(p).lang \in loaded[hl[p]]
      /\ pc[p] # "rejected"

\* C5: when the tokenizer rejects lang as unknown, codeToHighlightHtml
\* rejects and produces no result, on the fast path and on the slow path.
C5_UnknownLanguageRejects ==
  \A p \in Renders :
    (Settled(p) /\ OptionsOf(p).lang \notin loaded[hl[p]] \cup PlainLangs)
      => pc[p] = "rejected" /\ out[p].rejected /\ ~out[p].result.defined

\* a slow-path call with an unknown language has rejected, the annotator's
\* failure having been caught first
C5_Witness ==
  \E p \in Renders :
    /\ pc[p] = "rejected"
    /\ OptionsOf(p).lang = UnknownLang
    /\ out[p].annotateCalls = 1
    /\ out[p].warned

\* C6: stats.lines equals the number of lines of the source text (its
\* newlines plus one) and the number of line elements of html; 'a\n' gives 2
\* lines and the empty string 1.
C6_LineCount ==
  \A p \in Resolved :
    /\ out[p].result.stats.lines = LineCount(CodeOf(p))
    /\ Len(HtmlLines(p)) = out[p].result.stats.lines

\* the call for 'a\n' has returned, with two lines
C6_Witness ==
  \E p \in Resolved :
    CodeOf(p) = <<"a", NL>> /\ out[p].result.stats.lines = 2

\* the set a highlightLines option selects
SelectedLines(highlightLines) ==
  CASE highlightLines.kind = "array"  -> SetOf(highlightLines.array)
    [] highlightLines.kind = "string" -> parseLineNumbers(highlightLines.str)
    [] OTHER                          -> {}

\* C7: for every highlightLines selector H (array or range string), the
\* rendered line with 1-based number i carries the class highlighted iff i
\* is in H (the annotation not having failed).
C7_HighlightedLines ==
  \A p \in Annotated :
    \A k \in 1..Len(HtmlLines(p)) :
      HasClass(HtmlLines(p)[k], "highlighted")
        <=> k \in SelectedLines(OptionsOf(p).highlightLines)

\* highlightLines: [1, 3] on three lines: lines 1 and 3 carry the class,
\* line 2 does not
C7_Witness ==
  \E p \in Annotated :
    /\ OptionsOf(p).highlightLines = HlArray(<<1, 3>>)
    /\ Len(HtmlLines(p)) = 3
    /\ HasClass(HtmlLines(p)[1], "highlighted")
    /\ ~HasClass(HtmlLines(p)[2], "highlighted")
    /\ HasClass(HtmlLines(p)[3], "highlighted")

\* C8: for every focusLines set F that contains a line of the source, line i
\* carries the class blurred iff i is not in F; when focusLines is absent
\* or empty no line carries it (the annotation not having failed).
C8_BlurredLines ==
  \A p \in Annotated :
    LET F == SetOf(OptionsOf(p).focusLines.array)
        n == Len(HtmlLines(p))
    IN  /\ F \cap (1..n) # {} =>
             \A k \in 1..n : HasClass(HtmlLines(p)[k], "blurred") <=> k \notin F
        /\ F = {} => \A k \in 1..n : ~HasClass(HtmlLines(p)[k], "blurred")

\* focusLines: [2] on three lines: lines 1 and 3 are blurred, line 2 is not
C8_Witness ==
  \E p \in Annotated :
    /\ OptionsOf(p).focusLines = FlArray(<<2>>)
    /\ Len(HtmlLines(p)) = 3
    /\ HasClass(HtmlLines(p)[1], "blurred")
    /\ ~HasClass(HtmlLines(p)[2], "blurred")
    /\ HasClass(HtmlLines(p)[3], "blurred")

\* the start value a lineNumbers option asks for: true means 1
RequestedStart(lineNumbers) ==
  IF lineNumbers.kind = "object" /\ lineNumbers.hasStart THEN lineNumbers.start ELSE 1

\* C9: for every lineNumbers option with an integer start value s (true
\* meaning 1), the line-number element of the line with zero-based index i
\* shows exactly s + i (the annotation not having failed).
C9_LineNumbersFromStart ==
  \A p \in Annotated :
    (OptionsOf(p).lineNumbers = LnBool(TRUE) \/ OptionsOf(p).lineNumbers.hasStart)
      => \A k \in 1..Len(HtmlLines(p)) :
           ChildrenOf(HtmlLines(p)[k], "line-number")
             = <<Leaf("line-number",
                      NumberToString(RequestedStart(OptionsOf(p).lineNumbers) + (k - 1)))>>

\* C10: each rendered line has at most one diff-marker element: '+' when the
\* line is in diffLines.added, '-' when it is in diffLines.removed and not
\* in added, none otherwise; the marker precedes the line-number element,
\* which precedes the line-content element.
C10_DiffMarkers ==
  \A p \in Resolved :
    \A k \in 1..Len(HtmlLines(p)) :
      LET m        == out[p].metadata
          el       == HtmlLines(p)[k]
          markers  == ChildrenOf(el, "diff-marker")
          added    == m.defined /\ k \in m.diffLines.added
          removed  == m.defined /\ k \in m.diffLines.removed
          Rank(c)  == CASE c = "diff-marker" -> 1 [] c = "line-number" -> 2
                        [] c = "line-content" -> 3 [] OTHER -> 0
      IN  /\ Len(markers) <= 1
          /\ added => markers = <<Leaf("diff-marker", <<"+">>)>>
          /\ (removed /\ ~added) => markers = <<Leaf("diff-marker", <<"-">>)>>
          /\ (~added /\ ~removed) => markers = <<>>
          /\ \A i \in 1..Len(el.children) : Rank(el.children[i].class) > 0
          /\ \A i, j \in 1..Len(el.children) :
               i < j => Rank(el.children[i].class) < Rank(el.children[j].class)
          /\ el.children[Len(el.children)].class = "line-content"

\* a line that is both added and removed shows '+', before its line number
\* and its content
C10_Witness ==
  \E p \in Resolved :
    /\ 1 \in out[p].metadata.diffLines.added
    /\ 1 \in out[p].metadata.diffLines.removed
    /\ Len(HtmlLines(p)[1].children) = 3
    /\ HtmlLines(p)[1].children[1] = Leaf("diff-marker", <<"+">>)
    /\ HtmlLines(p)[1].children[2].class = "line-number"

\* the line numbers the three line selectors of a call name
ReferencedLines(options) ==
  SelectedLines(options.highlightLines)
    \cup SetOf(options.diffLines.added) \cup SetOf(options.diffLines.removed)
    \cup SetOf(options.focusLines.array)

\* the same options without highlightLines, diffLines and focusLines
WithoutLineSelectors(options) ==
  [options EXCEPT !.highlightLines = HlAbsent, !.diffLines = DlAbsent,
                  !.focusLines = FlAbsent]

\* C11: when highlightLines, diffLines and focusLines name only line numbers
\* beyond the source's line count, the call does not fail, no line carries
\* highlighted, diff or blurred, no diff marker is emitted, and html and css
\* equal those of the same call without the three options.
C11_OutOfRangeReferences ==
  \A p \in Renders :
    LET n == LineCount(CodeOf(p))
        plain == codeToHighlightHtml(loaded[hl[p]], CodeOf(p),
                                     WithoutLineSelectors(OptionsOf(p)), UsedId(p)).result
    IN  (/\ Settled(p)
         /\ EngineAccepts(p)
         /\ \A k \in ReferencedLines(OptionsOf(p)) : k > n)
        => /\ pc[p] = "resolved"
           /\ \A k \in 1..Len(HtmlLines(p)) :
                /\ ~HasClass(HtmlLines(p)[k], "highlighted")
                /\ ~HasClass(HtmlLines(p)[k], "diff")
                /\ ~HasClass(HtmlLines(p)[k], "blurred")
                /\ ChildrenOf(HtmlLines(p)[k], "diff-marker") = <<>>
           /\ out[p].result.html = plain.html
           /\ out[p].result.css = plain.css

\* a two-line source with highlightLines, diffLines and focusLines all
\* naming lines after the second has been rendered on the slow path
C11_Witness ==
  \E p \in Annotated :
    /\ LineCount(CodeOf(p)) = 2
    /\ OptionsOf(p).transformers = <<>>
    /\ OptionsOf(p).lineNumbers = LnAbsent
    /\ OptionsOf(p).highlightLines = HlArray(<<MaxLineNo>>)
    /\ OptionsOf(p).diffLines = DlObj(<<>>, <<MaxLineNo>>)
    /\ OptionsOf(p).focusLines.array # <<>>
    /\ \A k \in ReferencedLines(OptionsOf(p)) : k > 2
    /\ out[p].metadata.defined

\* C12: on the fast path (no feature option and no transformer, so that
\* buildTransformers returns the empty list) every line element's class list
\* is exactly <<line>>, its only child is the line-content element, and css
\* holds token color rules only.
C12_FastPathPlain ==
  \A p \in Resolved :
    Len(buildTransformers(OptionsOf(p))) = 0
      => /\ ~out[p].metadata.defined
         /\ \A k \in 1..Len(HtmlLines(p)) :
              /\ HtmlLines(p)[k].classes = <<"line">>
              /\ Len(HtmlLines(p)[k].children) = 1
              /\ HtmlLines(p)[k].children[1].class = "line-content"
         /\ out[p].result.css.lineStyles = <<>>

\* a call with lang and blockId only has rendered two lines and has a
\* token color rule in its css
C12_Witness ==
  \E p \in Resolved :
    /\ OptionsOf(p) = PlainOptions(JavaScript, "b1")
    /\ Len(HtmlLines(p)) = 2
    /\ out[p].annotateCalls = 0
    /\ out[p].result.css.tokenRules # <<>>

(***************************************************************************)
(* SpecEscape: one fast-path or line-numbered render of a text over the    *)
(* five special characters, letters of an entity name, ';' and newline.    *)
(***************************************************************************)
EscapeAlphabet == {"&", "<", ">", "\"", "'", "l", "t", ";", NL}
EscapeCodes == UNION {[1..n -> EscapeAlphabet] : n \in 0..MaxEscapeLen}
EscapeInputs ==
  {RenderInput(c, Options(JavaScript, "b1", <<>>, ln, HlAbsent, DlAbsent, FlAbsent)) :
     c \in EscapeCodes, ln \in {LnAbsent, LnBool(TRUE)}}

InitEscape ==
  /\ highlighterInstance = 1
  /\ created = 1
  /\ loaded = [i \in Calls |-> IF i = 1 THEN {JavaScript, TypeScript} ELSE {}]
  /\ createCalls = 1
  /\ failures = 0
  /\ \E r \in EscapeInputs : input = [p \in Calls |-> IF p = 1 THEN r ELSE NoInput]
  /\ pc = [p \in Calls |-> "idle"]
  /\ target = [p \in Calls |-> Null]
  /\ hl = [p \in Calls |-> Null]
  /\ afterLoad = [p \in Calls |-> FALSE]
  /\ out = [p \in Calls |-> NoOutcome]

SpecEscape == InitEscape /\ [][NextRender]_vars

\* the entity that stands for one character of the source
Entity(c) ==
  CASE c = "&"  -> <<"&", "a", "m", "p", ";">>
    [] c = "<"  -> <<"&", "l", "t", ";">>
    [] c = ">"  -> <<"&", "g", "t", ";">>
    [] c = "\"" -> <<"&", "q", "u", "o", "t", ";">>
    [] c = "'"  -> <<"&", "#", "3", "9", ";">>
    [] OTHER    -> <<c>>

SpecialChars == {"&", "<", ">", "\"", "'"}

RECURSIVE EscapeEach(_)
\* every character of the line replaced by its entity, once
EscapeEach(line) ==
  IF line = <<>> THEN <<>> ELSE Entity(Head(line)) \o EscapeEach(Tail(line))

HasPrefix(s, pre) == Len(s) >= Len(pre) /\ SubSeq(s, 1, Len(pre)) = pre

RECURSIVE Unescape(_)
\* the text an HTML parser reads from escaped content
Unescape(s) ==
  IF s = <<>> THEN <<>>
  ELSE IF \E c \in SpecialChars : HasPrefix(s, Entity(c))
    THEN LET c == CHOOSE d \in SpecialChars : HasPrefix(s, Entity(d))
         IN  <<c>> \o Unescape(SubSeq(s, Len(Entity(c)) + 1, Len(s)))
    ELSE <<Head(s)>> \o Unescape(Tail(s))

\* the text of the line-content element of line k of call p
LineContent(p, k) == ChildrenOf(HtmlLines(p)[k], "line-content")[1].text

\* C13: the text of a line's line-content element is the line with each of
\* & < > " ' replaced by its entity, every original character escaped
\* exactly once, so that unescaping the content gives back the line.
C13_EscapedOnce ==
  \A p \in Resolved :
    LET lines == SplitOn(CodeOf(p), NL)
    IN  /\ Len(HtmlLines(p)) = Len(lines)
        /\ \A k \in 1..Len(lines) :
             /\ Len(ChildrenOf(HtmlLines(p)[k], "line-content")) = 1
             /\ LineContent(p, k) = EscapeEach(lines[k])
             /\ Unescape(LineContent(p, k)) = lines[k]
             /\ \A i \in 1..Len(LineContent(p, k)) :
                  LineContent(p, k)[i] \notin {"<", ">", "\"", "'"}

\* the source line '&lt;' (an entity written out in the source) has been
\* rendered as '&amp;lt;'
C13_Witness ==
  \E p \in Resolved :
    /\ CodeOf(p) = <<"&", "l", "t", ";">>
    /\ LineContent(p, 1) = <<"&", "a", "m", "p", ";", "l", "t", ";">>

(***************************************************************************)
(* SpecTokens: the generators of codeToHighlightHtml on an arbitrary token *)
(* stream, as the tokenizer may return one for some language and theme:    *)
(* tokens of one or two characters whose color is one of two colors, the   *)
(* empty string or missing (ThemedToken.color is optional).                *)
(***************************************************************************)
TokenColors == {WordColor, OtherColor, "", Undefined}
TokenItems == {Token(c, col) : c \in {<<"a">>, <<"a", "b">>}, col \in TokenColors}
\* the end of a line in a stream written as one sequence
LineBreak == Token(<<NL>>, "break")
TokenStreams ==
  {SplitOn(items, LineBreak) :
     items \in UNION {[1..n -> TokenItems \cup {LineBreak}] : n \in 0..MaxStreamLen}}

RECURSIVE SourceOf(_)
\* the source text a token stream was made from
SourceOf(tokens) ==
  IF Len(tokens) = 1 THEN LineText(tokens[1])
  ELSE LineText(Head(tokens)) \o <<NL>> \o SourceOf(Tail(tokens))

TokensInput(tokens, blockId) ==
  [kind |-> "tokens", code |-> SourceOf(tokens), options |-> PlainOptions(JavaScript, blockId),
   grammar |-> "", tokens |-> tokens]

\* the part of codeToHighlightHtml after the tokenizer has returned, on the
\* fast path: html, css, script and stats are computed from the tokens
Generate(p) ==
  /\ pc[p] = "idle"
  /\ input[p].kind = "tokens"
  /\ LET tokens  == input[p].tokens
         blockId == input[p].options.blockId
     IN  out' = [out EXCEPT ![p] =
                   [NoOutcome EXCEPT
                      !.tokenizeCalls = 1,
                      !.result = Result(generateHtml(input[p].code, blockId, UndefinedMetadata),
                                        generateCss(tokens, blockId, UndefinedMetadata),
                                        generateScript(tokens, blockId),
                                        Stats(tokens))]]
  /\ pc' = [pc EXCEPT ![p] = "resolved"]
  /\ UNCHANGED <<highlighterInstance, created, loaded, createCalls, failures,
                 input, target, hl, afterLoad>>

InitTokens ==
  /\ highlighterInstance = 1
  /\ created = 1
  /\ loaded = [i \in Calls |-> IF i = 1 THEN {JavaScript, TypeScript} ELSE {}]
  /\ createCalls = 1
  /\ failures = 0
  /\ \E ts \in TokenStreams :
       input = [p \in Calls |-> IF p = 1 THEN TokensInput(ts, "b1") ELSE NoInput]
  /\ pc = [p \in Calls |-> "idle"]
  /\ target = [p \in Calls |-> Null]
  /\ hl = [p \in Calls |-> Null]
  /\ afterLoad = [p \in Calls |-> FALSE]
  /\ out = [p \in Calls |-> NoOutcome]

NextTokens == \E p \in Calls : Generate(p)

SpecTokens == InitTokens /\ [][NextTokens]_vars

\* the calls that have generated their result from a token stream
Generated == {p \in Calls : input[p].kind = "tokens" /\ pc[p] = "resolved"}

\* C14: for every token stream, including streams with tokens that carry
\* no color, stats.uniqueStyles equals the number of ::highlight color rules
\* the stylesheet generator emits for the same stream.
C14_UniqueStylesAreRules ==
  \A p \in Generated :
    out[p].result.stats.uniqueStyles = Len(out[p].result.css.tokenRules)

(***************************************************************************)
(* SpecParse: one parseLineNumbers call on a string over digits, '-', ',', *)
(* blank, carriage return and a letter.                                    *)
(***************************************************************************)
SelectorAlphabet == {"0", "1", "3", "-", ",", " ", "\r", "x"}
Selectors == UNION {[1..n -> SelectorAlphabet] : n \in 0..MaxSelectorLen}

ParseInput(str) ==
  [kind |-> "parse", code |-> <<>>, options |-> PlainOptions("", ""), grammar |-> "",
   str |-> str]
\* what a parseLineNumbers call returned
Parsed(lines) == [kind |-> "parsed", lines |-> lines]

\* parseLineNumbers(input) is called and returns; it has no throw statement
\* and calls nothing that throws on a string
Parse(p) ==
  /\ pc[p] = "idle"
  /\ input[p].kind = "parse"
  /\ out' = [out EXCEPT ![p] = Parsed(parseLineNumbers(input[p].str))]
  /\ pc' = [pc EXCEPT ![p] = "resolved"]
  /\ UNCHANGED <<highlighterInstance, created, loaded, createCalls, failures,
                 input, target, hl, afterLoad>>

InitParse ==
  /\ highlighterInstance = Null
  /\ created = 0
  /\ loaded = [i \in Calls |-> {}]
  /\ createCalls = 0
  /\ failures = 0
  /\ \E str \in Selectors :
       input = [p \in Calls |-> IF p = 1 THEN ParseInput(str) ELSE NoInput]
  /\ pc = [p \in Calls |-> "idle"]
  /\ target = [p \in Calls |-> Null]
  /\ hl = [p \in Calls |-> Null]
  /\ afterLoad = [p \in Calls |-> FALSE]
  /\ out = [p \in Calls |-> NoOutcome]

NextParse == \E p \in Calls : Parse(p)

SpecParse == InitParse /\ [][NextParse]_vars

\* the parseLineNumbers calls that have returned
ParseDone == {p \in Calls : input[p].kind = "parse" /\ pc[p] = "resolved"}

\* a positive integer written out: digits only, not all of them zero, with or
\* without blanks around it
IsPositiveInteger(s) ==
  LET t == Trim(s)
  IN  /\ t # <<>>
      /\ \A i \in 1..Len(t) : t[i] \in Digits
      /\ DecimalValue(t) > 0

\* the segment is one positive integer, or one range a-b of positive
\* integers with a <= b
IsValidSegment(segment) ==
  \/ IsPositiveInteger(segment)
  \/ LET parts == SplitOn(segment, "-")
     IN  /\ Len(parts) = 2
         /\ IsPositiveInteger(parts[1])
         /\ IsPositiveInteger(parts[2])
         /\ DecimalValue(Trim(parts[1])) <= DecimalValue(Trim(parts[2]))

\* the line numbers a valid segment stands for
SegmentMeaning(segment) ==
  IF IsPositiveInteger(segment) THEN {DecimalValue(Trim(segment))}
  ELSE LET parts == SplitOn(segment, "-")
       IN  DecimalValue(Trim(parts[1])) .. DecimalValue(Trim(parts[2]))

SegmentsOf(str) == SplitOn(str, ",")

\* the union of the meanings of the valid segments of a selector string
ValidMeaning(str) ==
  UNION {SegmentMeaning(SegmentsOf(str)[i]) :
           i \in {j \in 1..Len(SegmentsOf(str)) : IsValidSegment(SegmentsOf(str)[j])}}

\* C15: for every input whose comma-separated segments are each a positive
\* integer or a range a-b of positive integers with a <= b (blanks around
\* numbers allowed), parseLineNumbers returns exactly the union of the
\* single numbers and of the integers a..b; empty or blank input gives the
\* empty set.
C15_ParsesValidSelectors ==
  \A p \in ParseDone :
    LET str == input[p].str
    IN  /\ (\A i \in 1..Len(SegmentsOf(str)) : IsValidSegment(SegmentsOf(str)[i]))
             => out[p].lines = ValidMeaning(str)
        /\ Trim(str) = <<>> => out[p].lines = {}

\* '3,1-3' has been parsed: the single number and the range overlap and
\* collapse to {1, 2, 3}
C15_Witness ==
  \E p \in ParseDone :
    /\ input[p].str = <<"3", ",", "1", "-", "3">>
    /\ out[p].lines = {1, 2, 3}

\* C16: for every input string, each segment that is not exactly a positive
\* integer or exactly one range with a single '-', two positive integer
\* sides and start <= end contributes no line number, and all other
\* segments are still parsed: the result is the union of the valid segments.
C16_InvalidSegmentsDropped ==
  \A p \in ParseDone : out[p].lines = ValidMeaning(input[p].str)

\* what a render call returns when it runs alone: on a highlighter with the
\* two default languages loaded
Alone(code, options) ==
  codeToHighlightHtml({JavaScript, TypeScript}, code, options, Undefined)

\* C17: with explicit blockIds, what a codeToHighlightHtml call returns
\* depends only on its own arguments: in every interleaving with other
\* render calls it settles as it does when it runs alone.
C17_CallsAreIndependent ==
  (\A q \in Calls : input[q].kind \in {"render", "none"})
    => \A p \in Renders :
         Settled(p) => /\ out[p] = Alone(CodeOf(p), OptionsOf(p))
                       /\ (pc[p] = "rejected") = Alone(CodeOf(p), OptionsOf(p)).rejected

\* the names of the generated transformers, in the order of generation
GeneratedNames ==
  <<"highlight-api-line-numbers", "highlight-api-highlight-lines",
    "highlight-api-diff-lines", "highlight-api-focus-lines">>
GeneratedRank(name) ==
  IF \E r \in 1..Len(GeneratedNames) : GeneratedNames[r] = name
    THEN CHOOSE r \in 1..Len(GeneratedNames) : GeneratedNames[r] = name
    ELSE 0
HasTransformer(transformers, name) ==
  \E i \in 1..Len(transformers) : transformers[i].name = name

\* C18: buildTransformers returns the user's transformers first, in the
\* given order, followed by the generated line-numbering, line-highlighting,
\* diff-marking and focus-marking transformers in that relative order, each
\* at most once.
C18_TransformerOrder ==
  \A p \in Renders :
    Settled(p) =>
      LET ts   == buildTransformers(OptionsOf(p))
          user == OptionsOf(p).transformers
      IN  /\ Len(ts) >= Len(user)
          /\ \A i \in 1..Len(user) : ts[i] = UserTransformer(user[i])
          /\ \A i \in (Len(user) + 1)..Len(ts) : GeneratedRank(ts[i].name) > 0
          /\ \A i, j \in (Len(user) + 1)..Len(ts) :
               i < j => GeneratedRank(ts[i].name) < GeneratedRank(ts[j].name)

\* a call with two user transformers and all four line features has
\* settled: six transformers, the user's two in front
C18_Witness ==
  \E p \in Renders :
    /\ Settled(p)
    /\ OptionsOf(p).transformers = <<"user-throws", "test-custom-2">>
    /\ Len(buildTransformers(OptionsOf(p))) = 6
    /\ buildTransformers(OptionsOf(p))[2].name = "test-custom-2"
    /\ buildTransformers(OptionsOf(p))[6].name = "highlight-api-focus-lines"

\* C19: buildTransformers generates a diff-marking transformer iff
\* diffLines.added or diffLines.removed is non-empty and a focus-marking
\* transformer iff focusLines is non-empty; without a user transformer and
\* without a feature requested in this sense it returns the empty list.
C19_GeneratedIffRequested ==
  \A p \in Renders :
    Settled(p) =>
      LET o  == OptionsOf(p)
          ts == buildTransformers(o)
          diffRequested  == o.diffLines.added # <<>> \/ o.diffLines.removed # <<>>
          focusRequested == o.focusLines.array # <<>>
      IN  /\ HasTransformer(ts, "highlight-api-diff-lines") <=> diffRequested
          /\ HasTransformer(ts, "highlight-api-focus-lines") <=> focusRequested
          /\ (/\ o.transformers = <<>>
              /\ ~TruthyLineNumbers(o.lineNumbers)
              /\ ~TruthyHighlightLines(o.highlightLines)
              /\ ~diffRequested
              /\ ~focusRequested) => (ts = <<>> /\ out[p].annotateCalls = 0)

(***************************************************************************)
(* SpecHooks: the line hooks of generated transformers applied to one line *)
(* element of the tree, in any order and any number of times.              *)
(***************************************************************************)
GeneratedTransformers ==
  {createLineNumberTransformer(LnBool(TRUE)), createLineNumberTransformer(LnStart(MaxStart))}
    \cup {createHighlightLinesTransformer({k}) : k \in 1..MaxHookLine}
    \cup {createDiffLinesTransformer(d) :
            d \in {DlObj(<<1>>, <<>>), DlObj(<<>>, <<1>>), DlObj(<<1>>, <<1>>), DlObj(<<2>>, <<>>)}}
    \cup {createFocusLinesTransformer({k}) : k \in 1..MaxHookLine}

ElementInput(line) ==
  [kind |-> "element", code |-> <<>>, options |-> PlainOptions("", ""), grammar |-> "",
   line |-> line]
\* a line element of the tree and the number of hooks that ran on it
ElementState(node, applied) == [kind |-> "element", node |-> node, applied |-> applied]

\* the engine runs the line hook of one more transformer on the element
ApplyLineHook(p) ==
  /\ input[p].kind = "element"
  /\ \E t \in GeneratedTransformers :
       out' = [out EXCEPT ![p] =
                 ElementState(LineHook(t, out[p].node, input[p].line),
                              IF out[p].applied < MaxApplied THEN out[p].applied + 1
                                                          ELSE MaxApplied)]
  /\ UNCHANGED <<highlighterInstance, created, loaded, createCalls, failures,
                 input, pc, target, hl, afterLoad>>

InitHooks ==
  /\ highlighterInstance = 1
  /\ created = 1
  /\ loaded = [i \in Calls |-> IF i = 1 THEN {JavaScript, TypeScript} ELSE {}]
  /\ createCalls = 1
  /\ failures = 0
  /\ \E line \in 1..MaxHookLine :
       input = [p \in Calls |-> IF p = 1 THEN ElementInput(line) ELSE NoInput]
  /\ pc = [p \in Calls |-> "idle"]
  /\ target = [p \in Calls |-> Null]
  /\ hl = [p \in Calls |-> Null]
  /\ afterLoad = [p \in Calls |-> FALSE]
  /\ out = [p \in Calls |-> IF p = 1 THEN ElementState(NewLineElement, 0) ELSE NoOutcome]

NextHooks == \E p \in Calls : ApplyLineHook(p)

SpecHooks == InitHooks /\ [][NextHooks]_vars

\* the elements that hooks are applied to
Elements == {p \in Calls : input[p].kind = "element"}
Occurrences(classes, c) == Cardinality({i \in 1..Len(classes) : classes[i] = c})
FeatureClasses == {"line-numbered", "highlighted", "diff", "add", "remove", "focused"}

\* C20: after any sequence of generated transformers is applied to one line
\* element, in any order and with any repetition, its class list holds line
\* exactly once and every feature class at most once; applying the same
\* transformer twice gives the same class list as applying it once.
C20_ClassesOnceAndIdempotent ==
  \A p \in Elements :
    LET node == out[p].node
        line == input[p].line
    IN  /\ Occurrences(node.class.list, "line") = 1
        /\ \A c \in FeatureClasses : Occurrences(node.class.list, c) <= 1
        /\ out[p].applied > 0 => node.class.isArray
        /\ \A t \in GeneratedTransformers :
             LineHook(t, LineHook(t, node, line), line).class = LineHook(t, node, line).class

\* hooks of all four kinds have run on line 1, some of them twice: the
\* element carries line and the six feature classes
C20_Witness ==
  \E p \in Elements :
    /\ out[p].applied >= 2
    /\ Len(out[p].node.class.list) = 7
    /\ \A c \in FeatureClasses : Occurrences(out[p].node.class.list, c) = 1

(***************************************************************************)
(* SpecUserHooks: as SpecHooks, with the line hooks of one or two          *)
(* user-supplied transformers running first (buildTransformers puts the    *)
(* user's transformers in front of the generated ones).                    *)
(***************************************************************************)
UserHookNames == {"test-custom-2", "user-string-class"}
UserHookLists ==
  {<<a>> : a \in UserHookNames} \cup {<<a, b>> : a, b \in UserHookNames}

\* the engine runs the line hooks of the user-supplied transformers on the
\* element, in their order, before any generated one
ApplyUserHook(p) ==
  /\ input[p].kind = "element"
  /\ out[p].applied = 0
  /\ \E names \in UserHookLists :
       out' = [out EXCEPT ![p] =
                 ElementState(
                   ApplyHooks([i \in 1..Len(names) |-> UserTransformer(names[i])],
                              out[p].node, input[p].line), 1)]
  /\ UNCHANGED <<highlighterInstance, created, loaded, createCalls, failures,
                 input, pc, target, hl, afterLoad>>

NextUserHooks == \E p \in Calls : ApplyUserHook(p) \/ ApplyLineHook(p)

SpecUserHooks == InitHooks /\ [][NextUserHooks]_vars

\* the first sequence is the beginning of the second
IsPrefix(a, b) == Len(a) <= Len(b) /\ SubSeq(b, 1, Len(a)) = a

\* C21: applying a generated transformer's line hook to a line element
\* never removes or reorders a class that an earlier transformer
\* (user-supplied or generated) put on it, whatever form the class property
\* had: the class list before the hook is the beginning of the class list
\* after it.
C21_ClassesKept ==
  [][\A p \in Elements :
       (\E t \in GeneratedTransformers :
          out'[p].node = LineHook(t, out[p].node, input[p].line))
         => IsPrefix(out[p].node.class.list, out'[p].node.class.list)]_vars

(***************************************************************************)
(* SpecExtract: one extractMetadata call on a tree whose elements, in      *)
(* document order, carry any of a few class lists, a data-line that is     *)
(* missing, not a number, or a line number, and for some an inline style.  *)
(***************************************************************************)
TreeClassLists ==
  {<<>>, <<"some-other-class">>, <<"line">>, <<"highlighted">>,
   <<"line", "highlighted">>, <<"line", "diff">>, <<"line", "add">>,
   <<"line", "diff", "add">>, <<"line", "diff", "remove">>,
   <<"line", "diff", "add", "remove">>, <<"line", "focused">>,
   <<"line", "has-focus">>, <<"diff", "add", "focused">>,
   <<"line", "highlighted", "diff", "add", "focused">>}
TreeDataLines == {Unset, Unparsable} \cup {SetTo(n) : n \in 1..MaxTreeLine}
\* inline styles: 'a: b; c: d;', 'a: e' and a string without a declaration
TreeStyles ==
  {<<"a", ":", " ", "b", ";", " ", "c", ":", " ", "d", ";">>,
   <<"a", ":", " ", "e">>,
   <<"a", ";", " ", ":", "b">>}
TreeElements ==
  {[class |-> AsArray(c), dataLine |-> d, dataLineNumber |-> Unset, style |-> NoStyle] :
     c \in TreeClassLists, d \in TreeDataLines}
  \cup {[class |-> AsArray(c), dataLine |-> d, dataLineNumber |-> Unset,
         style |-> StyleString(st)] :
          c \in {<<"some-other-class">>, <<"line">>}, d \in TreeDataLines,
          st \in TreeStyles}
Trees == UNION {[1..n -> TreeElements] : n \in 0..MaxTreeLen}

TreeInput(hast) ==
  [kind |-> "tree", code |-> <<>>, options |-> PlainOptions("", ""), grammar |-> "",
   hast |-> hast]
\* how an extractMetadata call ended
Extracted(metadata) == [kind |-> "extracted", threw |-> FALSE, metadata |-> metadata]

\* extractMetadata(hast) is called and returns
Extract(p) ==
  /\ pc[p] = "idle"
  /\ input[p].kind = "tree"
  /\ out' = [out EXCEPT ![p] = Extracted(extractMetadata(input[p].hast))]
  /\ pc' = [pc EXCEPT ![p] = "resolved"]
  /\ UNCHANGED <<highlighterInstance, created, loaded, createCalls, failures,
                 input, target, hl, afterLoad>>

InitExtract ==
  /\ highlighterInstance = Null
  /\ created = 0
  /\ loaded = [i \in Calls |-> {}]
  /\ createCalls = 0
  /\ failures = 0
  /\ \E hast \in Trees :
       input = [p \in Calls |-> IF p = 1 THEN TreeInput(hast) ELSE NoInput]
  /\ pc = [p \in Calls |-> "idle"]
  /\ target = [p \in Calls |-> Null]
  /\ hl = [p \in Calls |-> Null]
  /\ afterLoad = [p \in Calls |-> FALSE]
  /\ out = [p \in Calls |-> NoOutcome]

NextExtract == \E p \in Calls : Extract(p)

SpecExtract == InitExtract /\ [][NextExtract]_vars

\* the extractMetadata calls that have returned
ExtractDone == {p \in Calls : input[p].kind = "tree" /\ pc[p] = "resolved"}

\* the data-line of the element is a number
HasLineNumber(el) == el.dataLine.set /\ ~el.dataLine.nan
\* the tree without the elements whose data-line is missing or not a number
NumberedOnly(hast) == SelectSeq(hast, HasLineNumber)
\* every line number stored anywhere in the per-line parts of a metadata
StoredLines(m) ==
  m.highlightedLines \cup m.diffLines.added \cup m.diffLines.removed
    \cup m.focusLines \cup DOMAIN m.lineClasses \cup DOMAIN m.lineStyles
PerLineParts(m) ==
  <<m.highlightedLines, m.diffLines, m.focusLines, m.lineClasses, m.lineStyles>>

\* C22: extractMetadata never throws, a line element whose data-line is
\* missing or does not parse to a number adds nothing to highlightedLines,
\* diffLines, focusLines, lineClasses or lineStyles, and the other lines of
\* the tree are still extracted.
C22_UnnumberedLinesSkipped ==
  \A p \in ExtractDone :
    LET hast == input[p].hast
        m    == out[p].metadata
    IN  /\ ~out[p].threw
        /\ m.defined
        /\ \A n \in StoredLines(m) :
             \E i \in 1..Len(hast) : HasLineNumber(hast[i]) /\ hast[i].dataLine.val = n
        /\ PerLineParts(m) = PerLineParts(extractMetadata(NumberedOnly(hast)))
        /\ \A i \in 1..Len(hast) :
             (HasLineNumber(hast[i]) /\ Includes(hast[i].class.list, "line"))
               => hast[i].dataLine.val \in DOMAIN m.lineClasses

\* a tree of a highlighted line whose data-line is not a number and a
\* highlighted line 2 has been extracted: only line 2 is stored
C22_Witness ==
  \E p \in ExtractDone :
    /\ Len(input[p].hast) = 2
    /\ input[p].hast[1].dataLine = Unparsable
    /\ input[p].hast[1].class.list = <<"line", "highlighted">>
    /\ input[p].hast[2].dataLine = SetTo(2)
    /\ out[p].metadata.highlightedLines = {2}
    /\ DOMAIN out[p].metadata.lineClasses = {2}

\* the elements of the tree that carry the line class and line number n
LineElements(hast, n) ==
  {i \in 1..Len(hast) : /\ Includes(hast[i].class.list, "line")
                        /\ HasLineNumber(hast[i])
                        /\ hast[i].dataLine.val = n}
ElementHas(hast, i, c) == Includes(hast[i].class.list, c)

\* C23: a line number n is in highlightedLines iff an element with the line
\* class and number n has the class highlighted, in diffLines.added iff one
\* has both diff and add, in diffLines.removed iff one has both diff and
\* remove, in focusLines iff one has focused or has-focus; elements without
\* the line class set none of these.
C23_FlagsFromClasses ==
  \A p \in ExtractDone :
    LET hast == input[p].hast
        m    == out[p].metadata
        Some(n, P(_)) == \E i \in LineElements(hast, n) : P(i)
        IsHighlighted(i) == ElementHas(hast, i, "highlighted")
        IsAdded(i) == ElementHas(hast, i, "diff") /\ ElementHas(hast, i, "add")
        IsRemoved(i) == ElementHas(hast, i, "diff") /\ ElementHas(hast, i, "remove")
        IsFocused(i) == ElementHas(hast, i, "focused") \/ ElementHas(hast, i, "has-focus")
    IN  \A n \in (1..MaxTreeLine) \cup StoredLines(m) :
          /\ n \in m.highlightedLines <=> Some(n, IsHighlighted)
          /\ n \in m.diffLines.added <=> Some(n, IsAdded)
          /\ n \in m.diffLines.removed <=> Some(n, IsRemoved)
          /\ n \in m.focusLines <=> Some(n, IsFocused)

\* line 1 with the classes line and add (no diff) and line 2 with line and
\* has-focus have been extracted: nothing is added, line 2 is focused
C23_Witness ==
  \E p \in ExtractDone :
    /\ Len(input[p].hast) = 2
    /\ input[p].hast[1] = [class |-> AsArray(<<"line", "add">>), dataLine |-> SetTo(1),
                           dataLineNumber |-> Unset, style |-> NoStyle]
    /\ input[p].hast[2] = [class |-> AsArray(<<"line", "has-focus">>), dataLine |-> SetTo(2),
                           dataLineNumber |-> Unset, style |-> NoStyle]
    /\ out[p].metadata.diffLines.added = {}
    /\ out[p].metadata.focusLines = {2}

\* the flattened token stream of a generator call and its color rules
FlatTokens(p) == Flat(input[p].tokens)
ColorRules(p) == out[p].result.css.tokenRules
\* the position at which a color is first seen in a flattened stream
FirstSeen(flat, color) ==
  CHOOSE i \in 1..Len(flat) : flat[i].color = color /\ \A j \in 1..(i - 1) : flat[j].color # color
\* a color that gets a rule: neither missing nor the empty string
IsColor(color) == color # Undefined /\ color # ""

\* C24: generateCss emits exactly one ::highlight rule per distinct
\* non-empty token color, in first-seen order over the flattened stream,
\* named hl-<blockId>-<k> with k = 0, 1, 2, ... without gaps; distinct colors
\* never share a name and uncolored tokens get no rule.
C24_OneRulePerColor ==
  \A p \in Generated :
    LET flat  == FlatTokens(p)
        rules == ColorRules(p)
    IN  /\ {rules[k].color : k \in 1..Len(rules)}
             = {flat[i].color : i \in {j \in 1..Len(flat) : IsColor(flat[j].color)}}
        /\ \A k, l \in 1..Len(rules) :
             k # l => rules[k].color # rules[l].color /\ rules[k].name # rules[l].name
        /\ \A k \in 1..Len(rules) :
             rules[k].name = [block |-> input[p].options.blockId, index |-> k - 1]
        /\ \A k, l \in 1..Len(rules) :
             k < l => FirstSeen(flat, rules[k].color) < FirstSeen(flat, rules[l].color)

\* a stream of an uncolored token and two colors, the first of them seen
\* twice, has two rules
C24_Witness ==
  \E p \in Generated :
    /\ Len(FlatTokens(p)) = 4
    /\ FlatTokens(p)[1].color = Undefined
    /\ FlatTokens(p)[2].color = OtherColor
    /\ FlatTokens(p)[3].color = WordColor
    /\ FlatTokens(p)[4].color = OtherColor
    /\ Len(ColorRules(p)) = 2
    /\ ColorRules(p)[1].color = OtherColor

HasGroup(css, group) == \E i \in 1..Len(css.lineStyles) : css.lineStyles[i] = group

\* C25: generateCss emits the highlighted-line, diff, blurred and
\* line-number rule groups iff, respectively, metadata.highlightedLines is
\* non-empty, diffLines.added or diffLines.removed is non-empty, focusLines
\* is non-empty, and lineNumbers is on; without metadata it emits none.
C25_LineRuleGroups ==
  \A p \in Resolved :
    LET m   == out[p].metadata
        css == out[p].result.css
    IN  /\ HasGroup(css, "highlighted") <=> (m.defined /\ m.highlightedLines # {})
        /\ HasGroup(css, "diff")
             <=> (m.defined /\ (m.diffLines.added # {} \/ m.diffLines.removed # {}))
        /\ HasGroup(css, "blurred") <=> (m.defined /\ m.focusLines # {})
        /\ HasGroup(css, "line-number") <=> (m.defined /\ m.lineNumbers.kind # "false")
        /\ \A i, j \in 1..Len(css.lineStyles) : i # j => css.lineStyles[i] # css.lineStyles[j]
        /\ ~m.defined => css.lineStyles = <<>>

\* a call whose metadata holds removed lines only (and no added line) has
\* the diff rules in its css
C25_Witness ==
  \E p \in Resolved :
    /\ out[p].metadata.defined
    /\ out[p].metadata.diffLines.added = {}
    /\ out[p].metadata.diffLines.removed # {}
    /\ HasGroup(out[p].result.css, "diff")
    /\ ~HasGroup(out[p].result.css, "highlighted")

\* the ranges a generator call serialized
Ranges(p) == out[p].result.script.ranges

RECURSIVE TextLength(_, _)
\* the summed content length of the first n tokens of a line
TextLength(line, n) ==
  IF n = 0 THEN 0 ELSE TextLength(line, n - 1) + Len(line[n].content)

\* the positions <<l, t>> of the colored tokens of a stream, and how many
\* of them come before a position in token order
ColoredPositions(tokens) ==
  {<<l, t>> : l \in 1..Len(tokens), t \in 1..MaxStreamLen} \cap
  {pos \in (1..Len(tokens)) \X (1..MaxStreamLen) :
     pos[2] <= Len(tokens[pos[1]]) /\ IsColor(tokens[pos[1]][pos[2]].color)}
Before(a, b) == a[1] < b[1] \/ (a[1] = b[1] /\ a[2] < b[2])
RankOf(tokens, pos) ==
  Cardinality({q \in ColoredPositions(tokens) : Before(q, pos)}) + 1

\* C26: generateScript serializes exactly one range per colored token, in
\* token order; a range's start is the summed raw content length of all
\* preceding tokens of its line, colored or not, its end is start plus the
\* token's content length, and the offset restarts at 0 on every line.
C26_RangeOffsets ==
  \A p \in Generated :
    LET tokens == input[p].tokens
    IN  /\ Len(Ranges(p)) = Cardinality(ColoredPositions(tokens))
        /\ \A pos \in ColoredPositions(tokens) :
             LET r    == Ranges(p)[RankOf(tokens, pos)]
                 line == tokens[pos[1]]
             IN  /\ r.line = pos[1] - 1
                 /\ r.start = TextLength(line, pos[2] - 1)
                 /\ r.end = r.start + Len(line[pos[2]].content)
                 /\ r.color = line[pos[2]].color
                 /\ pos[2] = 1 => r.start = 0

\* a first line of an uncolored two-character token followed by a colored
\* one, and a second line of one colored token: the ranges start at 2 and 0
C26_Witness ==
  \E p \in Generated :
    /\ Len(input[p].tokens) = 2
    /\ Len(input[p].tokens[1]) = 2
    /\ input[p].tokens[1][1] = Token(<<"a", "b">>, Undefined)
    /\ Len(Ranges(p)) = 2
    /\ Ranges(p)[1].start = 2
    /\ Ranges(p)[2].line = 1
    /\ Ranges(p)[2].start = 0

\* C29: for the same token stream and blockId, the color-to-name map that
\* generateScript serializes is the assignment generateCss uses, so every
\* serialized range's color maps to a name for which css has a rule.
C29_ScriptMapIsCssMap ==
  \A p \in Generated :
    LET map   == out[p].result.script.colorMap
        rules == ColorRules(p)
    IN  /\ map = rules
        /\ \A i \in 1..Len(Ranges(p)) :
             \E k \in 1..Len(map) :
               /\ map[k].color = Ranges(p)[i].color
               /\ \E j \in 1..Len(rules) : rules[j].name = map[k].name

\* a stream with two colors has been generated: two names, used by ranges
C29_Witness ==
  \E p \in Generated :
    /\ Len(out[p].result.script.colorMap) = 2
    /\ Len(Ranges(p)) >= 3
    /\ \E i \in 1..Len(Ranges(p)) :
         Ranges(p)[i].color = out[p].result.script.colorMap[2].color

\* C30: under the tokenizer contract every serialized range satisfies
\* 0 <= start <= end <= length of its raw line, the ranges of one line are
\* in increasing order and never overlap, and each range's line value is the
\* zero-based index i of a line element that html emits with the unique id
\* <blockId>-L<i>.
C30_RangesWithinLines ==
  \A p \in Generated :
    LET raw   == SplitOn(input[p].code, NL)
        lines == out[p].result.html.lines
        rs    == Ranges(p)
    IN  /\ Len(lines) = Len(raw)
        /\ \A i, j \in 1..Len(lines) : i # j => lines[i].id # lines[j].id
        /\ \A i \in 1..Len(rs) :
             /\ rs[i].line \in 0..(Len(lines) - 1)
             /\ lines[rs[i].line + 1].id
                  = [block |-> input[p].options.blockId, index |-> rs[i].line]
             /\ 0 <= rs[i].start
             /\ rs[i].start <= rs[i].end
             /\ rs[i].end <= Len(raw[rs[i].line + 1])
        /\ \A i, j \in 1..Len(rs) :
             (i < j /\ rs[i].line = rs[j].line)
               => rs[i].start < rs[j].start /\ rs[i].end <= rs[j].start
        /\ \A i, j \in 1..Len(rs) : i < j => rs[i].line <= rs[j].line

\* two colored tokens on the second of two lines: two ranges on line 1, the
\* second beginning where the first ends
C30_Witness ==
  \E p \in Generated :
    /\ Len(out[p].result.html.lines) = 2
    /\ Len(Ranges(p)) = 2
    /\ Ranges(p)[1].line = 1
    /\ Ranges(p)[2].line = 1
    /\ Ranges(p)[1].end = Ranges(p)[2].start
    /\ Ranges(p)[2].end = Len(SplitOn(input[p].code, NL)[2])

\* the instances that have both default languages
DefaultsLoaded(i) == {JavaScript, TypeScript} \subseteq loaded[i]

\* C27: getHighlighter never hands the shared instance to a caller before
\* both default languages have finished loading on it, also when the caller
\* arrives while the first caller still awaits a loadLanguage step.
C27_InstanceHandedOutLoaded ==
  \A p \in Calls : hl[p] # Null => DefaultsLoaded(hl[p])

\* the call p rejected inside getHighlighter: it never held a highlighter
InitializationFailed(p) == pc[p] = "rejected" /\ hl[p] = Null

\* C28: when initialization fails, no instance stays cached: the instance a
\* failed initialization was working on is not what highlighterInstance
\* holds, so a later call starts afresh and never receives it.
C28_FailedInitializationNotCached ==
  \A p \in Calls :
    (InitializationFailed(p) /\ target[p] # Null)
      => /\ highlighterInstance # target[p]
         /\ \A q \in Calls : hl[q] # target[p]

====
